---- MODULE Spec2Model ----
(***************************************************************************)
(* Aviation Crew Communication API: credential store and login lockout,    *)
(* token service, document gateway and message gateway, modelled from the  *)
(* JavaScript sources.  Time is counted in minutes since the epoch of the  *)
(* model; every stored ISO timestamp is the minute it denotes.             *)
(*                                                                         *)
(* Fields that no handler ever reads back (createdAt / updatedAt of a user *)
(* record) are left out of the records.                                    *)
(***************************************************************************)
EXTENDS Integers, Sequences, FiniteSets, TLC

VARIABLES
    now,          \* the wall clock (new Date() / Date.now()), in minutes
    resp,         \* the response of the request handled last
    users,        \* data/users.js: the in-memory users array
    uuidCount,    \* number of uuidv4() identifiers handed out for user ids
    known,        \* history: employeeIds that were seeded or registered
    consec,       \* history: failed logins of an identity since its last success
    lockStart,    \* history: minute of the last failed login that completed 5 in a row
    sinceUnlock,  \* history: failed checks since the identity was last Unlocked
    pending,      \* POST /auth/login requests suspended at await bcrypt.compare
    detached,     \* user objects replaced in the array that a suspended request holds
    env,          \* process.env: is JWT_REFRESH_SECRET configured
    tokens,       \* the signed tokens that exist and can be presented
    issued,       \* history: each generateTokens call, with the user it was for
    blacklist,    \* utils/jwt.js: the tokenBlacklist Map, token -> expiry
    documents,    \* data/documents.js: the in-memory documents array
    docUuid,      \* number of uuidv4() identifiers handed out for document ids
    messages,     \* data/messages.js: the in-memory messages array
    msgUuid       \* number of uuidv4() identifiers handed out for message ids

authVars == <<users, uuidCount, known, consec, lockStart, sinceUnlock, pending, detached>>
tokVars == <<tokens, issued, blacklist>>
docVars == <<documents, docUuid>>
msgVars == <<messages, msgUuid>>
nonAuthVars == <<tokVars, docVars, msgVars>>
nonTokVars == <<docVars, msgVars>>
vars == <<now, resp, env, authVars, tokVars, docVars, msgVars>>

(***************************************************************************)
(* Bounds of the model.                                                    *)
(***************************************************************************)
MaxTicks == 3        \* clock steps explored
MaxFailed == 6       \* cap on failedLoginAttempts / consecutive failures
MaxRegistered == 1   \* registrations explored

(***************************************************************************)
(* Program constants.                                                      *)
(***************************************************************************)
Null == -1                 \* JavaScript null in a timestamp field
StartTime == 0             \* minute at which the process starts
TickStep == 15             \* granularity of the modelled clock, minutes
LockThreshold == 5         \* failed attempts that lock the account
LockMinutes == 30          \* 30 * 60 * 1000 ms
SaltRounds == 12           \* bcrypt cost factor
AccessMinutes == 15        \* JWT_EXPIRES_IN default '15m'
RefreshMinutes == 10080    \* JWT_REFRESH_EXPIRES_IN default '7d'

(***************************************************************************)
(* bcrypt: a hash remembers the secret and the cost it was derived with;   *)
(* compare succeeds exactly on the secret the hash was derived from.       *)
(***************************************************************************)
bcryptHash(password, rounds) == <<"$2b$", rounds, password>>

bcryptCompare(password, hash) == hash[1] = "$2b$" /\ hash[3] = password

(***************************************************************************)
(* data/users.js: the seeded users.                                        *)
(***************************************************************************)
SeedUser(id, employeeId, password, name, role, department, clearanceLevel, airline) ==
    [id |-> id, employeeId |-> employeeId,
     password |-> bcryptHash(password, SaltRounds),
     name |-> name, role |-> role, department |-> department,
     clearanceLevel |-> clearanceLevel, airline |-> airline,
     isActive |-> TRUE, lastLoginAt |-> Null,
     failedLoginAttempts |-> 0, accountLockedUntil |-> Null]

SeedUsers ==
    << SeedUser("user-001", "AA12345", "password123", "Captain Sarah Johnson",
                "pilot", "flight-operations", 5, "American Airlines"),
       SeedUser("user-002", "AA12346", "password123", "First Officer Mike Chen",
                "co-pilot", "flight-operations", 4, "American Airlines"),
       SeedUser("user-003", "AA12347", "password123", "Flight Attendant Lisa Martinez",
                "flight-attendant", "cabin-crew", 2, "American Airlines"),
       SeedUser("user-004", "AB12345", "SecurePass123!", "Demo Test Pilot",
                "pilot", "flight-operations", 5, "Demo Airlines"),
       SeedUser("user-005", "AA12348", "password123", "Gate Agent Robert Davis",
                "gate-agent", "ground-operations", 2, "American Airlines"),
       SeedUser("user-006", "AA12349", "password123", "Dispatcher Jennifer Wilson",
                "dispatcher", "dispatch", 4, "American Airlines"),
       SeedUser("user-006", "DL54321", "password123", "Captain James Thompson",
                "pilot", "flight-operations", 5, "Delta Air Lines"),
       SeedUser("user-007", "UA98765", "password123", "Ground Crew Lead Mark Rodriguez",
                "ground-crew", "ground-operations", 3, "United Airlines") >>

SeedIds == { SeedUsers[i].employeeId : i \in 1..Len(SeedUsers) }

(***************************************************************************)
(* Inputs of the requests explored.                                        *)
(***************************************************************************)
NewIds == {"ZZ10000"}                          \* employeeIds not seeded
LoginIds == {"AA12349", "DL54321"}             \* identities that log in
Passwords == {"password123", "Changed456!"}    \* presented secrets
RegisterIds == {"DL54321"} \cup NewIds         \* employeeIds that register
RegisterPasswords == {"password123"}           \* secrets chosen at registration
ChangeIds == {"DL54321"}                       \* identities that change password
NewPasswords == {"Changed456!"}                \* secrets chosen at a change
ProfileRequesters == {"AA12349", "ZZ10000"}    \* bearers of profile updates
ProfileTargets == {"AA12349"}                  \* profiles that are updated
UserIdsForDelete == {"user-006"}               \* ids handed to deleteUser
NewNames == {"Renamed Crew"}                   \* names of profile updates
Uuids == <<"uuid-1", "uuid-2", "uuid-3">>      \* successive results of uuidv4()
AllIds == SeedIds \cup NewIds

(***************************************************************************)
(* Array.prototype.findIndex, 1-based; 0 stands for -1 / not found.        *)
(***************************************************************************)
FirstIndex(hits) ==
    IF \E i \in 1..Len(hits) : hits[i]
    THEN CHOOSE i \in 1..Len(hits) : hits[i] /\ \A j \in 1..(i - 1) : ~hits[j]
    ELSE 0

\* { ...a, ...b }
Spread(a, b) ==
    [f \in (DOMAIN a) \cup (DOMAIN b) |-> IF f \in DOMAIN b THEN b[f] ELSE a[f]]

findUserByEmployeeId(us, employeeId) ==
    FirstIndex([i \in 1..Len(us) |-> us[i].employeeId = employeeId])

findUserById(us, id) ==
    FirstIndex([i \in 1..Len(us) |-> us[i].id = id])

addUser(us, user) == Append(us, user)

updateUser(us, updatedUser) ==
    LET index == FirstIndex([i \in 1..Len(us) |-> us[i].id = updatedUser.id])
    IN  IF index # 0
        THEN [us EXCEPT ![index] = Spread(us[index], updatedUser)]
        ELSE us

(***************************************************************************)
(* utils/jwt.js.  A token is its claims together with the secret that      *)
(* signed it; jwt.sign adds iat, exp, iss and aud to the payload.          *)
(***************************************************************************)
JwtSecret == "JWT_SECRET"
RefreshSecret(e) == IF e.refreshSecretSet THEN "JWT_REFRESH_SECRET" ELSE JwtSecret
Issuer == "aviation-crew-api"
Audience == "aviation-crew"
TokenIds == {"tid-1"}       \* outcomes of crypto.randomUUID()

jwtSign(payload, secret, t, expiresIn, issuer, audience) ==
    [payload |-> payload, secret |-> secret, iat |-> t, exp |-> t + expiresIn,
     iss |-> issuer, aud |-> audience]

generateTokens(user, t, tokenId, e) ==
    [accessToken |->
        jwtSign([employeeId |-> user.employeeId, name |-> user.name,
                 role |-> user.role, department |-> user.department,
                 clearanceLevel |-> user.clearanceLevel, airline |-> user.airline],
                JwtSecret, t, AccessMinutes, Issuer, Audience),
     refreshToken |->
        jwtSign([employeeId |-> user.employeeId, type |-> "refresh",
                 tokenId |-> tokenId],
                RefreshSecret(e), t, RefreshMinutes, Issuer, Audience)]

NoTokens == {}

(***************************************************************************)
(* routes/auth.js                                                          *)
(***************************************************************************)
Response(op, who, status, code, pair) ==
    [op |-> op, who |-> who, status |-> status, code |-> code,
     tokens |-> pair, at |-> now]

\* user.accountLockedUntil && new Date() < new Date(user.accountLockedUntil)
IsLockedAt(user, t) ==
    user.accountLockedUntil # Null /\ t < user.accountLockedUntil

\* the branch of POST /auth/login taken when bcrypt.compare says no
FailedLogin(user, t) ==
    LET attempts == user.failedLoginAttempts + 1
    IN  [user EXCEPT
            !.failedLoginAttempts = attempts,
            !.accountLockedUntil =
                IF attempts >= LockThreshold THEN t + LockMinutes ELSE @]

\* a successful login that forgets to reset the failure counter
SuccessfulLogin_KeepsCounter(user, t) ==
    [user EXCEPT !.accountLockedUntil = Null, !.lastLoginAt = t]

\* the branch of POST /auth/login taken when the password is valid
SuccessfulLogin(user, t) ==
    [user EXCEPT !.failedLoginAttempts = 0,
                 !.accountLockedUntil = Null,
                 !.lastLoginAt = t]

\* the handler mutates the found object in place and then calls updateUser
StoreUser(us, i, user) == updateUser([us EXCEPT ![i] = user], user)

LoginCode(us, employeeId, password, t) ==
    LET i == findUserByEmployeeId(us, employeeId)
    IN  IF i = 0 THEN "INVALID_CREDENTIALS"
        ELSE IF IsLockedAt(us[i], t) THEN "ACCOUNT_LOCKED"
        ELSE IF ~us[i].isActive THEN "ACCOUNT_DEACTIVATED"
        ELSE IF ~bcryptCompare(password, us[i].password) THEN "INVALID_CREDENTIALS"
        ELSE "LOGIN_OK"

LoginStatus(code) ==
    CASE code = "LOGIN_OK" -> 200
      [] code = "ACCOUNT_LOCKED" -> 423
      [] OTHER -> 401

LoginUsers(us, employeeId, password, t) ==
    LET i == findUserByEmployeeId(us, employeeId)
        code == LoginCode(us, employeeId, password, t)
    IN  IF i = 0 \/ code \in {"ACCOUNT_LOCKED", "ACCOUNT_DEACTIVATED"} THEN us
        ELSE IF code = "INVALID_CREDENTIALS" THEN StoreUser(us, i, FailedLogin(us[i], t))
        ELSE StoreUser(us, i, SuccessfulLogin(us[i], t))

\* history of the attempts on an identity, kept from the responses alone
LoginHistory(employeeId, code, lockElapsed) ==
    /\ consec' =
          IF employeeId \notin known THEN consec
          ELSE IF code = "INVALID_CREDENTIALS" THEN [consec EXCEPT ![employeeId] = @ + 1]
          ELSE IF code = "LOGIN_OK" THEN [consec EXCEPT ![employeeId] = 0]
          ELSE consec
    /\ lockStart' =
          IF employeeId \notin known THEN lockStart
          ELSE IF code = "INVALID_CREDENTIALS" /\ consec[employeeId] + 1 >= LockThreshold
               THEN [lockStart EXCEPT ![employeeId] = now]
          ELSE IF code = "LOGIN_OK" THEN [lockStart EXCEPT ![employeeId] = Null]
          ELSE lockStart
    /\ sinceUnlock' =
          IF employeeId \notin known THEN sinceUnlock
          ELSE IF code = "INVALID_CREDENTIALS"
               THEN [sinceUnlock EXCEPT ![employeeId] = IF lockElapsed THEN 1 ELSE @ + 1]
          ELSE IF code = "LOGIN_OK" THEN [sinceUnlock EXCEPT ![employeeId] = 0]
          ELSE sinceUnlock

Login(employeeId, password) ==
    LET i == findUserByEmployeeId(users, employeeId)
        code == LoginCode(users, employeeId, password, now)
        after == LoginUsers(users, employeeId, password, now)
        j == findUserByEmployeeId(after, employeeId)
        lockElapsed == i # 0 /\ users[i].accountLockedUntil # Null
                             /\ ~IsLockedAt(users[i], now)
    IN  /\ i # 0 => users[i].failedLoginAttempts < MaxFailed
        /\ consec[employeeId] < MaxFailed
        /\ users' = after
        /\ \E tokenId \in TokenIds :
              resp' = Response("login", employeeId, LoginStatus(code), code,
                               IF code = "LOGIN_OK"
                               THEN {generateTokens(after[i], now, tokenId, env)}
                               ELSE NoTokens)
        /\ LoginHistory(employeeId, code, lockElapsed)
        /\ UNCHANGED nonAuthVars
        /\ UNCHANGED <<now, env, uuidCount, known, pending, detached>>

\* a registration that never looks for an existing user
RegisterCode_NeverExists(us, employeeId) == "REGISTERED"

\* the early return of POST /auth/register
RegisterCode(us, employeeId) ==
    IF findUserByEmployeeId(us, employeeId) # 0 THEN "USER_EXISTS" ELSE "REGISTERED"

NewUser(id, employeeId, password, clearanceLevel) ==
    [id |-> id, employeeId |-> employeeId,
     password |-> bcryptHash(password, SaltRounds),
     name |-> "New Crew", role |-> "co-pilot", department |-> "flight-operations",
     clearanceLevel |-> clearanceLevel, airline |-> "Test Air",
     isActive |-> TRUE, lastLoginAt |-> Null,
     failedLoginAttempts |-> 0, accountLockedUntil |-> Null]

Register(employeeId, password, clearanceLevel) ==
    LET code == RegisterCode(users, employeeId)
        newUser == NewUser(Uuids[uuidCount + 1], employeeId, password, clearanceLevel)
    IN  /\ code = "REGISTERED" => uuidCount < MaxRegistered
        /\ IF code = "USER_EXISTS"
           THEN /\ resp' = Response("register", employeeId, 409, code, NoTokens)
                /\ UNCHANGED authVars
           ELSE /\ users' = addUser(users, newUser)
                /\ uuidCount' = uuidCount + 1
                /\ \E tokenId \in TokenIds :
                      resp' = Response("register", employeeId, 201, code,
                                       {generateTokens(newUser, now, tokenId, env)})
                /\ known' = known \cup {employeeId}
                /\ consec' = [consec EXCEPT ![employeeId] = 0]
                /\ lockStart' = [lockStart EXCEPT ![employeeId] = Null]
                /\ sinceUnlock' = [sinceUnlock EXCEPT ![employeeId] = 0]
        /\ UNCHANGED nonAuthVars
        /\ UNCHANGED <<now, env, pending, detached>>

\* what authenticateToken requires of the bearer before the handler runs
IsAuthenticated(us, employeeId) ==
    LET i == findUserByEmployeeId(us, employeeId) IN i # 0 /\ us[i].isActive

ChangePassword(employeeId, currentPassword, newPassword) ==
    LET i == findUserByEmployeeId(users, employeeId)
    IN  /\ IsAuthenticated(users, employeeId)
        /\ IF ~bcryptCompare(currentPassword, users[i].password)
           THEN /\ resp' = Response("password", employeeId, 400,
                                    "INVALID_CURRENT_PASSWORD", NoTokens)
                /\ UNCHANGED users
           ELSE /\ users' = StoreUser(users, i,
                                [users[i] EXCEPT
                                    !.password = bcryptHash(newPassword, SaltRounds)])
                /\ resp' = Response("password", employeeId, 200, "PASSWORD_UPDATED",
                                    NoTokens)
        /\ UNCHANGED nonAuthVars
        /\ UNCHANGED <<now, env, uuidCount, known, consec, lockStart, sinceUnlock,
                       pending, detached>>

\* PUT /crew/:employeeId/profile
ProfileUpdate(requester, employeeId, name) ==
    LET r == findUserByEmployeeId(users, requester)
        i == findUserByEmployeeId(users, employeeId)
    IN  /\ IsAuthenticated(users, requester)
        /\ IF requester # employeeId /\ users[r].clearanceLevel < 4
           THEN /\ resp' = Response("profile", employeeId, 403,
                                    "UPDATE_PERMISSION_DENIED", NoTokens)
                /\ UNCHANGED users
           ELSE IF i = 0
           THEN /\ resp' = Response("profile", employeeId, 404,
                                    "CREW_MEMBER_NOT_FOUND", NoTokens)
                /\ UNCHANGED users
           ELSE IF ~users[i].isActive
           THEN /\ resp' = Response("profile", employeeId, 400,
                                    "CREW_MEMBER_INACTIVE", NoTokens)
                /\ UNCHANGED users
           ELSE /\ users' = [users EXCEPT ![i].name = name]
                /\ resp' = Response("profile", employeeId, 200, "PROFILE_UPDATED",
                                    NoTokens)
        /\ UNCHANGED nonAuthVars
        /\ UNCHANGED <<now, env, uuidCount, known, consec, lockStart, sinceUnlock,
                       pending, detached>>

\* data/users.js deleteUser: soft delete
DeleteUser(id) ==
    LET i == findUserById(users, id)
    IN  /\ IF i # 0
           THEN /\ users' = StoreUser(users, i, [users[i] EXCEPT !.isActive = FALSE])
                /\ resp' = Response("deleteUser", id, 0, "TRUE", NoTokens)
           ELSE /\ UNCHANGED users
                /\ resp' = Response("deleteUser", id, 0, "FALSE", NoTokens)
        /\ UNCHANGED nonAuthVars
        /\ UNCHANGED <<now, env, uuidCount, known, consec, lockStart, sinceUnlock,
                       pending, detached>>

Tick ==
    /\ now < StartTime + MaxTicks * TickStep
    /\ now' = now + TickStep
    /\ resp' = Response("tick", "", 0, "", NoTokens)
    /\ UNCHANGED <<env, authVars, nonAuthVars>>

(***************************************************************************)
(* Seed data of data/documents.js and data/messages.js.  The process is    *)
(* taken to start on 2024-01-16 at 11:45 UTC, a quarter of an hour before  *)
(* the first seed document expires; Jan2024 gives a January 2024 date as   *)
(* minutes of the model clock.                                             *)
(***************************************************************************)
Jan2024(day, hour, minute) == ((day - 16) * 24 + hour) * 60 + minute - 705

NoFlight == "null"         \* flightNumber: null
NoFilter == ""             \* a query parameter that was not given
NoKey == "null"            \* encryptionKey: null
NoContent == "null"        \* a response without a body of file content
Placeholder(text) == [kind |-> "placeholder", text |-> text]

LogEntry(action, employeeId, t) ==
    [action |-> action, employeeId |-> employeeId, timestamp |-> t]

\* a text is kept as the sequence of its words
SeedDocument(id, title, description, fileName, category, accessLevel, flightNumber, text, key, uploadedBy, downloadCount, expiresAt, createdAt, accessLog) ==
    [id |-> id, title |-> title, description |-> description,
     fileName |-> fileName, category |-> category, accessLevel |-> accessLevel,
     flightNumber |-> flightNumber, encryptedContent |-> Placeholder(text),
     encryptionKey |-> key, uploadedBy |-> uploadedBy, status |-> "active",
     downloadCount |-> downloadCount, expiresAt |-> expiresAt,
     createdAt |-> createdAt, accessLog |-> accessLog]

SeedDocuments ==
    << SeedDocument("doc-001", <<"AA1234", "Flight", "Plan">>,
                    <<"Complete", "flight", "plan", "for", "AA1234", "from", "JFK",
                      "to", "LAX">>,
                    <<"AA1234", "flight", "plan", "pdf">>,
                    "flight-plan", 4, "AA1234",
                    "encrypted_content_base64_string_here",
                    "encryption_key_base64_here", "AA12349", 3, Null,
                    Jan2024(15, 12, 0),
                    << LogEntry("uploaded", "AA12349", Jan2024(15, 12, 0)),
                       LogEntry("downloaded", "AA12345", Jan2024(15, 13, 15)) >>),
       SeedDocument("doc-002", <<"Weather", "Report", "Chicago", "Area">>,
                    <<"Current", "weather", "conditions", "and", "forecast", "for",
                      "Chicago", "airspace">>,
                    <<"chicago", "weather", "report", "pdf">>,
                    "weather", 1, "AA1234",
                    "encrypted_weather_content_base64_string_here",
                    "weather_encryption_key_base64_here", "AA12349", 5,
                    Jan2024(16, 12, 0), Jan2024(15, 11, 30),
                    << LogEntry("uploaded", "AA12349", Jan2024(15, 11, 30)) >>),
       SeedDocument("doc-003", <<"Aircraft", "Maintenance", "Log", "N123AA">>,
                    <<"Maintenance", "inspection", "report", "for", "aircraft",
                      "N123AA">>,
                    <<"N123AA", "maintenance", "log", "xlsx">>,
                    "maintenance", 3, "AA1234",
                    "encrypted_maintenance_content_base64_string_here",
                    "maintenance_encryption_key_base64_here", "AA12350", 2, Null,
                    Jan2024(15, 10, 0),
                    << LogEntry("uploaded", "AA12350", Jan2024(15, 10, 0)) >>),
       SeedDocument("doc-004", <<"Crew", "Manifest", "AA1234">>,
                    <<"Complete", "crew", "assignments", "and", "contact",
                      "information", "for", "flight", "AA1234">>,
                    <<"AA1234", "crew", "manifest", "docx">>,
                    "crew-manifest", 2, "AA1234",
                    "encrypted_crew_content_base64_string_here",
                    "crew_encryption_key_base64_here", "AA12348", 4,
                    Jan2024(17, 0, 0), Jan2024(15, 9, 0),
                    << LogEntry("uploaded", "AA12348", Jan2024(15, 9, 0)) >>),
       SeedDocument("doc-005", <<"Safety", "Briefing", "Winter", "Operations">>,
                    <<"Updated", "safety", "procedures", "for", "winter", "weather",
                      "operations">>,
                    <<"winter", "operations", "safety", "pdf">>,
                    "safety", 1, NoFlight,
                    "encrypted_safety_content_base64_string_here",
                    "safety_encryption_key_base64_here", "AA12351", 12,
                    Jan2024(61, 0, 0), Jan2024(10, 8, 0),
                    << LogEntry("uploaded", "AA12351", Jan2024(10, 8, 0)) >>) >>

SeedMessage(id, senderId, recipientId, content, priority, category, flightNumber, readAt, createdAt) ==
    [id |-> id, senderId |-> senderId, recipientId |-> recipientId,
     content |-> content, originalContent |-> content, isEncrypted |-> FALSE,
     encryptionKey |-> NoKey, priority |-> priority, category |-> category,
     flightNumber |-> flightNumber, readAt |-> readAt, createdAt |-> createdAt]

SeedMessages ==
    << SeedMessage("msg-001", "AA12345", "AA12346", "Weather update for flight AA1234",
                   "high", "weather", "AA1234", Jan2024(15, 14, 15), Jan2024(15, 14, 10)),
       SeedMessage("msg-002", "AA12349", "AA12345", "Flight plan revision",
                   "urgent", "flight-plan", "AA1234", Null, Jan2024(15, 13, 45)),
       SeedMessage("msg-003", "AA12347", "AA12345", "Cabin secure for takeoff",
                   "normal", "safety", "AA1234", Jan2024(15, 15, 2), Jan2024(15, 15, 0)),
       SeedMessage("msg-004", "AA12348", "AA12345", "Final passenger count",
                   "normal", "operational", "AA1234", Null, Jan2024(15, 14, 55)) >>

InitCommon ==
    /\ now = StartTime
    /\ resp = [op |-> "start", who |-> "", status |-> 0, code |-> "",
               tokens |-> NoTokens, at |-> StartTime]
    /\ users = SeedUsers
    /\ uuidCount = 0
    /\ known = SeedIds
    /\ consec = [e \in AllIds |-> 0]
    /\ lockStart = [e \in AllIds |-> Null]
    /\ sinceUnlock = [e \in AllIds |-> 0]
    /\ pending = <<>>
    /\ detached = <<>>
    /\ tokens = {}
    /\ issued = {}
    /\ blacklist = [t \in {} |-> Null]
    /\ documents = SeedDocuments
    /\ docUuid = 0
    /\ messages = SeedMessages
    /\ msgUuid = 0

Init ==
    /\ InitCommon
    /\ env = [refreshSecretSet |-> TRUE]

Next ==
    \/ \E e \in LoginIds, p \in Passwords : Login(e, p)
    \/ \E e \in RegisterIds, p \in RegisterPasswords : Register(e, p, 3)
    \/ \E e \in ChangeIds, c \in Passwords, n \in NewPasswords : ChangePassword(e, c, n)
    \/ \E r \in ProfileRequesters, e \in ProfileTargets, n \in NewNames : ProfileUpdate(r, e, n)
    \/ \E id \in UserIdsForDelete : DeleteUser(id)
    \/ Tick

Spec == Init /\ [][Next]_vars

(***************************************************************************)
(* POST /auth/login as the event loop runs it.  The handler is suspended   *)
(* at await bcrypt.compare, after it found the user object and checked the *)
(* lock and isActive; other requests run in between.  When it resumes it   *)
(* writes to the object it found, and updateUser puts a copy of that       *)
(* object in the array: the object that was in the array until then is no  *)
(* longer in it, and the requests that found it earlier still hold it.     *)
(***************************************************************************)
MaxPending == 2      \* login requests suspended at the same time

RaceIds == {"AA12345"}       \* the identity of the suspended logins
WrongPasswords == {"Changed456!"}

\* a reference to a user object: the one at an index of the array, or one
\* that was replaced in the array
ArrayObject(i) == [live |-> TRUE, at |-> i]
DetachedObject(k) == [live |-> FALSE, at |-> k]

Deref(us, objects, ref) == IF ref.live THEN us[ref.at] ELSE objects[ref.at]

\* a write to the fields of the object behind a reference
WriteUsers(us, ref, user) == IF ref.live THEN [us EXCEPT ![ref.at] = user] ELSE us
WriteDetached(objects, ref, user) ==
    IF ref.live THEN objects ELSE [objects EXCEPT ![ref.at] = user]

RemoveAt(seq, k) == [j \in 1..(Len(seq) - 1) |-> IF j < k THEN seq[j] ELSE seq[j + 1]]

\* objects that no suspended request holds are garbage: the objects that are
\* still held are kept, in their order
Held(pend) == {pend[j].user.at : j \in {m \in 1..Len(pend) : ~pend[m].user.live}}

Rank(held, k) == Cardinality({m \in held : m <= k})

CollectObjects(objects, pend) ==
    [n \in 1..Cardinality(Held(pend)) |->
        objects[CHOOSE k \in Held(pend) : Rank(Held(pend), k) = n]]

CollectPending(pend) ==
    [j \in 1..Len(pend) |->
        IF pend[j].user.live THEN pend[j]
        ELSE [pend[j] EXCEPT !.user = DetachedObject(Rank(Held(pend), @.at))]]

PendingFor(employeeId) ==
    Cardinality({k \in 1..Len(pending) : pending[k].employeeId = employeeId})

\* POST /auth/login up to await bcrypt.compare(password, user.password)
StartLogin(employeeId, password) ==
    LET i == findUserByEmployeeId(users, employeeId)
        code == LoginCode(users, employeeId, password, now)
        suspends == i # 0 /\ code \notin {"ACCOUNT_LOCKED", "ACCOUNT_DEACTIVATED"}
    IN  /\ IF suspends
           THEN /\ Len(pending) < MaxPending
                /\ users[i].failedLoginAttempts + Len(pending) < MaxFailed
                /\ consec[employeeId] + Len(pending) < MaxFailed
                /\ pending' = Append(pending,
                       [employeeId |-> employeeId, user |-> ArrayObject(i),
                        isPasswordValid |-> bcryptCompare(password, users[i].password)])
                /\ resp' = Response("await", employeeId, 0, "", NoTokens)
           ELSE /\ resp' = Response("login", employeeId, LoginStatus(code), code,
                                    NoTokens)
                /\ UNCHANGED pending
        /\ UNCHANGED nonAuthVars
        /\ UNCHANGED <<now, env, users, uuidCount, known, consec, lockStart,
                       sinceUnlock, detached>>

\* POST /auth/login from the result of bcrypt.compare to the response
FinishLogin(k) ==
    LET request == pending[k]
        employeeId == request.employeeId
        user == Deref(users, detached, request.user)
        code == IF request.isPasswordValid THEN "LOGIN_OK" ELSE "INVALID_CREDENTIALS"
        written == IF request.isPasswordValid THEN SuccessfulLogin(user, now)
                   ELSE FailedLogin(user, now)
        mutated == WriteUsers(users, request.user, written)
        index == findUserById(mutated, written.id)
        others == RemoveAt(pending, k)
        \* the requests that hold the object updateUser takes out of the array
        holds == [j \in 1..Len(others) |-> others[j].user = ArrayObject(index)]
        replaced == Append(WriteDetached(detached, request.user, written),
                           mutated[index])
        i == findUserByEmployeeId(users, employeeId)
        lockElapsed == i # 0 /\ users[i].accountLockedUntil # Null
                             /\ ~IsLockedAt(users[i], now)
        suspended == [j \in 1..Len(others) |->
                         IF holds[j]
                         THEN [others[j] EXCEPT !.user = DetachedObject(Len(replaced))]
                         ELSE others[j]]
    IN  /\ users' = updateUser(mutated, written)
        /\ pending' = CollectPending(suspended)
        /\ detached' = CollectObjects(replaced, suspended)
        /\ \E tokenId \in TokenIds :
              resp' = Response("login", employeeId, LoginStatus(code), code,
                               IF code = "LOGIN_OK"
                               THEN {generateTokens(written, now, tokenId, env)}
                               ELSE NoTokens)
        /\ LoginHistory(employeeId, code, lockElapsed)
        /\ UNCHANGED nonAuthVars
        /\ UNCHANGED <<now, env, uuidCount, known>>

NextLogins ==
    \/ \E e \in RaceIds, p \in Passwords : StartLogin(e, p)
    \/ \E k \in 1..Len(pending) : FinishLogin(k)
    \/ Tick

SpecLogins == Init /\ [][NextLogins]_vars

\* the same with wrong passwords only
NextFailedLogins ==
    \/ \E e \in RaceIds, p \in WrongPasswords : StartLogin(e, p)
    \/ \E k \in 1..Len(pending) : FinishLogin(k)
    \/ Tick

SpecFailedLogins == Init /\ [][NextFailedLogins]_vars

StoredUser(employeeId) == users[findUserByEmployeeId(users, employeeId)]

\* C22: when only logins with a wrong password are made, and none of an
\* identity is suspended any more, the failedLoginAttempts of the identity
\* is the number of these logins that were answered INVALID_CREDENTIALS, and
\* accountLockedUntil is set once that number is 5 or more.
C22_FailedLoginsAllCounted ==
    \A e \in RaceIds :
        PendingFor(e) = 0 =>
            /\ StoredUser(e).failedLoginAttempts = consec[e]
            /\ consec[e] >= LockThreshold => StoredUser(e).accountLockedUntil # Null

\* C23: no login is answered LOGIN_OK, clearing failedLoginAttempts and
\* accountLockedUntil, at a moment when the stored user is locked; a
\* sequential execution answers ACCOUNT_LOCKED to every login made then.
C23_NoSuccessWhileLocked ==
    [][\A e \in RaceIds :
          (resp'.op = "login" /\ resp'.who = e /\ resp'.code = "LOGIN_OK") =>
              ~IsLockedAt(StoredUser(e), now)]_vars

(***************************************************************************)
(* Properties of the credential store and the login lockout.               *)
(***************************************************************************)
HasRecord(employeeId) == findUserByEmployeeId(users, employeeId) # 0

RecordOf(employeeId) == users[findUserByEmployeeId(users, employeeId)]

LoginStep(employeeId) == resp'.op = "login" /\ resp'.who = employeeId

\* C1: once 5 failed logins in a row have been answered, every login on that
\* identity before 30 minutes after the 5th failure is answered ACCOUNT_LOCKED,
\* and a login from that minute on is not answered ACCOUNT_LOCKED.
C1_LockedForThirtyMinutes ==
    [][\A e \in LoginIds :
          (LoginStep(e) /\ lockStart[e] # Null) =>
              IF now < lockStart[e] + LockMinutes
              THEN resp'.code = "ACCOUNT_LOCKED"
              ELSE resp'.code # "ACCOUNT_LOCKED"]_vars

\* C7: a successful login leaves the record with failedLoginAttempts 0, no lock
\* and lastLoginAt stamped, and answers with a token pair of that record; the
\* stored failedLoginAttempts equals the failed logins since the last success,
\* and a record is only locked after 5 such failures.
C7_SuccessResetsCounters ==
    /\ (resp.op = "login" /\ resp.code = "LOGIN_OK") =>
          /\ HasRecord(resp.who)
          /\ RecordOf(resp.who).failedLoginAttempts = 0
          /\ RecordOf(resp.who).accountLockedUntil = Null
          /\ RecordOf(resp.who).lastLoginAt = resp.at
          /\ \E tokenId \in TokenIds :
                resp.tokens = {generateTokens(RecordOf(resp.who), resp.at, tokenId, env)}
    /\ \A e \in AllIds :
          HasRecord(e) =>
              /\ RecordOf(e).failedLoginAttempts = consec[e]
              /\ RecordOf(e).accountLockedUntil # Null => consec[e] >= LockThreshold

C7_Witness ==
    \E e \in LoginIds :
        /\ HasRecord(e)
        /\ RecordOf(e).lastLoginAt # Null
        /\ RecordOf(e).failedLoginAttempts = LockThreshold - 1
        /\ RecordOf(e).accountLockedUntil = Null
        /\ resp.op = "login" /\ resp.who = e /\ resp.code = "INVALID_CREDENTIALS"

\* C8: an identity is locked only when 5 failed credential checks in a row have
\* happened since it was last Unlocked (by a success or by the lock elapsing).
C8_LockNeedsFiveSinceUnlock ==
    \A e \in LoginIds :
        (HasRecord(e) /\ IsLockedAt(RecordOf(e), now)) => sinceUnlock[e] >= LockThreshold

\* C9: registering a taken employeeId answers USER_EXISTS, leaves the users array
\* as it was and issues no tokens; registering a free one appends exactly one
\* record (active, 0 failed attempts, no lock) and issues its token pair.
C9_RegisterExistsOrAppends ==
    [][resp'.op = "register" =>
          IF findUserByEmployeeId(users, resp'.who) # 0
          THEN /\ resp'.code = "USER_EXISTS"
               /\ users' = users
               /\ resp'.tokens = NoTokens
          ELSE /\ resp'.code = "REGISTERED"
               /\ Len(users') = Len(users) + 1
               /\ SubSeq(users', 1, Len(users)) = users
               /\ users'[Len(users')].employeeId = resp'.who
               /\ users'[Len(users')].isActive
               /\ users'[Len(users')].failedLoginAttempts = 0
               /\ users'[Len(users')].accountLockedUntil = Null
               /\ \E tokenId \in TokenIds :
                     resp'.tokens =
                        {generateTokens(users'[Len(users')], now, tokenId, env)}]_vars

C9_Witness ==
    /\ resp.op = "register" /\ resp.code = "USER_EXISTS" /\ resp.who \in NewIds
    /\ Cardinality({i \in 1..Len(users) : users[i].employeeId = resp.who}) = 1

\* C10: no two records of the users array share an employeeId, and every
\* employeeId that was seeded or registered still has its record.
C10_UniqueAndNeverRemoved ==
    /\ \A i, j \in 1..Len(users) :
          users[i].employeeId = users[j].employeeId => i = j
    /\ \A e \in known : HasRecord(e)

PasswordStep(employeeId) == resp'.op = "password" /\ resp'.who = employeeId

\* C11: a password change with a wrong current password is answered
\* INVALID_CURRENT_PASSWORD and leaves password, failedLoginAttempts and
\* accountLockedUntil of the record as they were; one with the right current
\* password stores the hash of the new password and leaves the record with
\* failedLoginAttempts 0 and no lock, so that the new password then matches
\* and the old one does not.
C11_ChangePasswordResetsCounters ==
    [][\A e \in ChangeIds :
          PasswordStep(e) =>
              LET old == RecordOf(e)
                  new == users'[findUserByEmployeeId(users', e)]
              IN  IF resp'.code = "INVALID_CURRENT_PASSWORD"
                  THEN /\ new.password = old.password
                       /\ new.failedLoginAttempts = old.failedLoginAttempts
                       /\ new.accountLockedUntil = old.accountLockedUntil
                  ELSE /\ resp'.code = "PASSWORD_UPDATED"
                       /\ \E p \in NewPasswords :
                             /\ new.password = bcryptHash(p, SaltRounds)
                             /\ bcryptCompare(p, new.password)
                       /\ \A p \in Passwords \ NewPasswords :
                             ~bcryptCompare(p, new.password)
                       /\ new.failedLoginAttempts = 0
                       /\ new.accountLockedUntil = Null]_vars

\* C25: a login, a registration, a password change or a profile update for
\* one identity leaves the stored record of every other identity as it was,
\* still found by its employeeId.
C25_OtherRecordsUntouched ==
    [][resp'.op \in {"login", "register", "password", "profile"} =>
          \A x \in AllIds :
              (HasRecord(x) /\ x # resp'.who) =>
                  /\ findUserByEmployeeId(users', x) # 0
                  /\ users'[findUserByEmployeeId(users', x)] = RecordOf(x)]_vars

(***************************************************************************)
(* Token service: utils/jwt.js and middleware/auth.js.                     *)
(***************************************************************************)
MaxIssued == 1       \* generateTokens calls explored
MaxCustom == 1       \* createCustomToken calls explored

CustomMinutes == 60        \* createCustomToken: expiresIn '1h'
DayMinutes == 1440         \* blacklistToken: 24 * 60 * 60 * 1000 ms
NoCheck == ""              \* jwt.verify called without that option

TokUsers == {"AA12349"}
ForeignSecret == "not-the-server-secret"
CustomOptions == {<<Issuer, Audience>>, <<"another-api", Audience>>,
                  <<Issuer, "another-audience">>}
ExpiresAtDelays == {Null, TickStep}

AccessPayload(user) ==
    [employeeId |-> user.employeeId, name |-> user.name, role |-> user.role,
     department |-> user.department, clearanceLevel |-> user.clearanceLevel,
     airline |-> user.airline]

\* tokens that were never signed by this server
ForgedTokens ==
    {jwtSign(AccessPayload(SeedUsers[i]), ForeignSecret, StartTime, CustomMinutes,
             Issuer, Audience) : i \in {j \in 1..Len(SeedUsers) :
                                           SeedUsers[j].employeeId \in TokUsers}}

Presentable == tokens \cup ForgedTokens

\* the access tokens handed out by generateTokens
IssuedAccess == {k.token : k \in issued}

Decoded(token) ==
    Spread(token.payload,
           [iat |-> token.iat, exp |-> token.exp, iss |-> token.iss, aud |-> token.aud])

JwtError(name, message) == [ok |-> FALSE, name |-> name, message |-> message]

\* a verification that never looks at the exp claim
jwtVerify_NoExpiry(token, secret, issuer, audience, t) ==
    IF token.secret # secret
    THEN JwtError("JsonWebTokenError", "invalid signature")
    ELSE IF audience # NoCheck /\ token.aud # audience
    THEN JwtError("JsonWebTokenError", "jwt audience invalid")
    ELSE IF issuer # NoCheck /\ token.iss # issuer
    THEN JwtError("JsonWebTokenError", "jwt issuer invalid")
    ELSE [ok |-> TRUE, decoded |-> Decoded(token)]

\* jsonwebtoken's verify: signature, then exp, then audience, then issuer
jwtVerify(token, secret, issuer, audience, t) ==
    IF token.secret # secret
    THEN JwtError("JsonWebTokenError", "invalid signature")
    ELSE IF t >= token.exp
    THEN JwtError("TokenExpiredError", "jwt expired")
    ELSE IF audience # NoCheck /\ token.aud # audience
    THEN JwtError("JsonWebTokenError", "jwt audience invalid")
    ELSE IF issuer # NoCheck /\ token.iss # issuer
    THEN JwtError("JsonWebTokenError", "jwt issuer invalid")
    ELSE [ok |-> TRUE, decoded |-> Decoded(token)]

verifyAccessToken(token, t) ==
    LET r == jwtVerify(token, JwtSecret, Issuer, Audience, t)
    IN  IF r.ok THEN r
        ELSE JwtError("Error", <<"Invalid access token: ", r.message>>)

\* an authentication step that does not look at isActive
authenticateToken_IgnoresActive(us, token, t) ==
    LET r == jwtVerify(token, JwtSecret, NoCheck, NoCheck, t)
        i == findUserByEmployeeId(us, r.decoded.employeeId)
    IN  IF ~r.ok
        THEN IF r.name = "TokenExpiredError"
             THEN [status |-> 401, code |-> "TOKEN_EXPIRED"]
             ELSE [status |-> 401, code |-> "INVALID_TOKEN"]
        ELSE IF i = 0 THEN [status |-> 401, code |-> "USER_NOT_FOUND"]
        ELSE [status |-> 0, code |-> "NEXT", user |-> AccessPayload(us[i])]

authenticateToken(us, token, t) ==
    LET r == jwtVerify(token, JwtSecret, NoCheck, NoCheck, t)
        i == findUserByEmployeeId(us, r.decoded.employeeId)
    IN  IF ~r.ok
        THEN IF r.name = "TokenExpiredError"
             THEN [status |-> 401, code |-> "TOKEN_EXPIRED"]
             ELSE [status |-> 401, code |-> "INVALID_TOKEN"]
        ELSE IF i = 0 THEN [status |-> 401, code |-> "USER_NOT_FOUND"]
        ELSE IF ~us[i].isActive THEN [status |-> 401, code |-> "ACCOUNT_DEACTIVATED"]
        ELSE [status |-> 0, code |-> "NEXT", user |-> AccessPayload(us[i])]

createCustomToken(payload, options, t) ==
    jwtSign(payload, JwtSecret, t, CustomMinutes, options[1], options[2])

getTokenExpiration(token) == token.exp

\* a cleanup that deletes nothing
cleanupBlacklist_Keeps(bl, t) == bl

cleanupBlacklist(bl, t) ==
    [tok \in {k \in DOMAIN bl : ~(t > bl[k])} |-> bl[tok]]

blacklistToken(bl, token, expiresAt, t) ==
    LET expiry == IF expiresAt # Null THEN expiresAt
                  ELSE IF getTokenExpiration(token) # Null
                  THEN getTokenExpiration(token)
                  ELSE t + DayMinutes
        set == [tok \in (DOMAIN bl) \cup {token} |->
                    IF tok = token THEN expiry ELSE bl[tok]]
    IN  cleanupBlacklist(set, t)

isTokenBlacklisted(bl, token, t) ==
    token \in DOMAIN bl /\ ~(t > bl[token])

TokenResponse(op, token, result) ==
    [op |-> op, token |-> token, result |-> result, at |-> now]

\* a successful login, registration or refresh hands out a token pair
IssueTokens(employeeId) ==
    LET i == findUserByEmployeeId(users, employeeId)
    IN  /\ i # 0
        /\ Cardinality(issued) < MaxIssued
        /\ \E tokenId \in TokenIds :
              LET pair == generateTokens(users[i], now, tokenId, env)
              IN  /\ tokens' = tokens \cup {pair.accessToken, pair.refreshToken}
                  /\ issued' = issued \cup
                        {[token |-> pair.accessToken, user |-> users[i], at |-> now]}
                  /\ resp' = TokenResponse("generateTokens", pair.accessToken,
                                           [ok |-> TRUE])
        /\ UNCHANGED <<now, env, authVars, blacklist, nonTokVars>>

CreateCustomToken(employeeId, options) ==
    LET i == findUserByEmployeeId(users, employeeId)
        token == createCustomToken(AccessPayload(users[i]), options, now)
    IN  /\ i # 0
        /\ Cardinality({k \in tokens : k.exp - k.iat = CustomMinutes}) < MaxCustom
        /\ tokens' = tokens \cup {token}
        /\ resp' = TokenResponse("createCustomToken", token, [ok |-> TRUE])
        /\ UNCHANGED <<now, env, authVars, issued, blacklist, nonTokVars>>

VerifyAccessToken(token) ==
    /\ resp' = TokenResponse("verifyAccessToken", token, verifyAccessToken(token, now))
    /\ UNCHANGED <<now, env, authVars, tokVars, nonTokVars>>

AuthenticateToken(token) ==
    /\ resp' = TokenResponse("authenticateToken", token,
                             authenticateToken(users, token, now))
    /\ UNCHANGED <<now, env, authVars, tokVars, nonTokVars>>

BlacklistToken(token, delay) ==
    /\ blacklist' = blacklistToken(blacklist, token,
                                   IF delay = Null THEN Null ELSE now + delay, now)
    /\ resp' = TokenResponse("blacklistToken", token, [ok |-> TRUE])
    /\ UNCHANGED <<now, env, authVars, tokens, issued, nonTokVars>>

IsTokenBlacklisted(token) ==
    /\ blacklist' = IF token \in DOMAIN blacklist /\ now > blacklist[token]
                    THEN [tok \in (DOMAIN blacklist) \ {token} |-> blacklist[tok]]
                    ELSE blacklist
    /\ resp' = TokenResponse("isTokenBlacklisted", token,
                             [ok |-> isTokenBlacklisted(blacklist, token, now)])
    /\ UNCHANGED <<now, env, authVars, tokens, issued, nonTokVars>>

NextTok ==
    \/ \E e \in TokUsers : IssueTokens(e)
    \/ \E e \in TokUsers, o \in CustomOptions : CreateCustomToken(e, o)
    \/ \E token \in Presentable : VerifyAccessToken(token)
    \/ \E token \in Presentable : AuthenticateToken(token)
    \/ \E token \in IssuedAccess, d \in ExpiresAtDelays : BlacklistToken(token, d)
    \/ \E token \in IssuedAccess : IsTokenBlacklisted(token)
    \/ \E r \in ProfileRequesters, e \in ProfileTargets, n \in NewNames : ProfileUpdate(r, e, n)
    \/ Tick

SpecTok == Init /\ [][NextTok]_vars

(***************************************************************************)
(* The blacklist of utils/jwt.js on its own: both tokens of a pair are     *)
(* blacklisted, until their own expiry, until a later moment or until a    *)
(* moment that has passed, and looked up, while time passes.               *)
(***************************************************************************)
BlacklistDelays == {Null, TickStep, -TickStep}

NextBlacklist ==
    \/ \E e \in TokUsers : IssueTokens(e)
    \/ \E token \in tokens, d \in BlacklistDelays : BlacklistToken(token, d)
    \/ \E token \in tokens : IsTokenBlacklisted(token)
    \/ Tick

SpecBlacklist == Init /\ [][NextBlacklist]_vars

\* the entries of a blacklist whose expiry is not earlier than t
Unexpired(bl, t) == {tok \in DOMAIN bl : ~(bl[tok] < t)}

Without(bl, token) == [tok \in (DOMAIN bl) \ {token} |-> bl[tok]]

\* what isTokenBlacklisted answers and does to the blacklist
LookupAsClaimed ==
    resp'.op = "isTokenBlacklisted" =>
        IF resp'.token \in DOMAIN blacklist
        THEN IF resp'.token \in Unexpired(blacklist, now)
             THEN resp'.result.ok /\ blacklist' = blacklist
             ELSE ~resp'.result.ok /\ blacklist' = Without(blacklist, resp'.token)
        ELSE ~resp'.result.ok /\ blacklist' = blacklist

\* C24 as stated: after blacklistToken no entry has an expiry earlier than
\* now, and every entry that was there with an expiry not earlier than now
\* is still there with the same expiry; a lookup of an expired entry answers
\* false and deletes the entry, a lookup of an unexpired entry answers true
\* and changes nothing.
C24_PrunesAndKeepsEveryEntry ==
    [][/\ resp'.op = "blacklistToken" =>
             /\ Unexpired(blacklist', now) = DOMAIN blacklist'
             /\ \A tok \in Unexpired(blacklist, now) :
                    tok \in DOMAIN blacklist' /\ blacklist'[tok] = blacklist[tok]
       /\ LookupAsClaimed]_vars

\* C24, amended: the same, where the entries that are kept with their
\* expiry are those of the other tokens; the entry of the token that is
\* blacklisted takes the new expiry, and is not there when that is earlier
\* than now.
C24_PrunesAndKeepsOtherEntries ==
    [][/\ resp'.op = "blacklistToken" =>
             /\ Unexpired(blacklist', now) = DOMAIN blacklist'
             /\ \A tok \in Unexpired(blacklist, now) \ {resp'.token} :
                    tok \in DOMAIN blacklist' /\ blacklist'[tok] = blacklist[tok]
             /\ DOMAIN blacklist' \subseteq Unexpired(blacklist, now) \cup {resp'.token}
       /\ LookupAsClaimed]_vars

\* a token was blacklisted until a moment that had passed and has no entry,
\* next to the entry of another token that was kept
C24_Witness ==
    /\ resp.op = "blacklistToken"
    /\ resp.token \notin DOMAIN blacklist
    /\ resp.at = now /\ now > StartTime
    /\ \E tok \in DOMAIN blacklist : tok # resp.token /\ blacklist[tok] = now

(***************************************************************************)
(* Properties of the token service.                                        *)
(***************************************************************************)
Verified == resp.op \in {"verifyAccessToken", "authenticateToken"}

Accepted ==
    IF resp.op = "verifyAccessToken" THEN resp.result.ok
    ELSE resp.result.code = "NEXT"

ExpiredError == JwtError("Error", <<"Invalid access token: ", "jwt expired">>)

\* C2: a token that is in the blacklist with an expiry that has not passed is
\* rejected by verifyAccessToken and by authenticateToken, also when its
\* signature, issuer, audience and expiry are valid.
C2_BlacklistedTokenRejected ==
    (Verified /\ isTokenBlacklisted(blacklist, resp.token, now)) => ~Accepted

\* C5: an access token handed out by generateTokens fails verification with
\* "jwt expired" / TOKEN_EXPIRED at any time after issue time + 15 minutes, and
\* before that time, when it is not blacklisted, verification succeeds and
\* yields the claims of the user it was issued for, as they were at issue time.
C5_ExpiryOfIssuedTokens ==
    \A k \in issued :
        (Verified /\ resp.token = k.token) =>
            /\ resp.at > k.at + AccessMinutes =>
                  IF resp.op = "verifyAccessToken"
                  THEN resp.result = ExpiredError
                  ELSE resp.result.code = "TOKEN_EXPIRED"
            /\ (resp.at < k.at + AccessMinutes
                  /\ ~isTokenBlacklisted(blacklist, k.token, now)) =>
                  IF resp.op = "verifyAccessToken"
                  THEN /\ resp.result.ok
                       /\ resp.result.decoded =
                             [employeeId |-> k.user.employeeId, name |-> k.user.name,
                              role |-> k.user.role, department |-> k.user.department,
                              clearanceLevel |-> k.user.clearanceLevel,
                              airline |-> k.user.airline,
                              iat |-> k.at, exp |-> k.at + AccessMinutes,
                              iss |-> Issuer, aud |-> Audience]
                  ELSE resp.result.code \notin {"TOKEN_EXPIRED", "INVALID_TOKEN"}

\* an issued token was verified after its expiry and was refused, while the
\* record of its user had been renamed since the token was issued
C5_Witness ==
    \E k \in issued :
        /\ resp.op = "verifyAccessToken"
        /\ resp.token = k.token
        /\ resp.at > k.at + AccessMinutes
        /\ ~resp.result.ok
        /\ RecordOf(k.user.employeeId).name # k.user.name

\* C6: a token whose signature, issuer or audience does not match the expected
\* values is refused as invalid by verifyAccessToken and by authenticateToken.
C6_MismatchIsInvalid ==
    (Verified /\ (resp.token.secret # JwtSecret \/ resp.token.iss # Issuer
                    \/ resp.token.aud # Audience)) =>
        IF resp.op = "verifyAccessToken"
        THEN ~resp.result.ok /\ resp.result # ExpiredError
        ELSE resp.result.code = "INVALID_TOKEN"

(***************************************************************************)
(* Sessions: POST /auth/refresh and POST /auth/logout of routes/auth.js,   *)
(* with verifyRefreshToken of utils/jwt.js.  JWT_REFRESH_SECRET may be set *)
(* or not; when it is not, refresh tokens are signed with JWT_SECRET.      *)
(***************************************************************************)
MaxRefreshed == 2    \* successful POST /auth/refresh calls explored

Envs == [refreshSecretSet : BOOLEAN]

\* a verification that never looks at the type claim
verifyRefreshToken_AnyType(token, e, t) ==
    LET r == jwtVerify(token, RefreshSecret(e), Issuer, Audience, t)
    IN  IF r.ok THEN r
        ELSE JwtError("Error", <<"Invalid refresh token: ", r.message>>)

verifyRefreshToken(token, e, t) ==
    LET r == jwtVerify(token, RefreshSecret(e), Issuer, Audience, t)
    IN  IF ~r.ok
        THEN JwtError("Error", <<"Invalid refresh token: ", r.message>>)
        ELSE IF ~("type" \in DOMAIN r.decoded /\ r.decoded.type = "refresh")
        THEN JwtError("Error", <<"Invalid refresh token: ", "Invalid token type">>)
        ELSE r

SessionResult(status, code, pair) ==
    [ok |-> status = 200, status |-> status, code |-> code, tokens |-> pair]

\* POST /auth/refresh
Refresh(token) ==
    LET v == verifyRefreshToken(token, env, now)
        i == IF v.ok THEN findUserByEmployeeId(users, v.decoded.employeeId) ELSE 0
    IN  /\ IF ~v.ok \/ i = 0 \/ ~users[i].isActive
           THEN /\ resp' = TokenResponse("refresh", token,
                               SessionResult(401, "INVALID_REFRESH_TOKEN", NoTokens))
                /\ UNCHANGED <<tokens, issued>>
           ELSE \E tokenId \in TokenIds :
                  LET pair == generateTokens(users[i], now, tokenId, env)
                      handed == issued \cup
                          {[token |-> pair.accessToken, user |-> users[i], at |-> now]}
                  IN  /\ Cardinality(handed) <= MaxIssued + MaxRefreshed
                      /\ tokens' = tokens \cup {pair.accessToken, pair.refreshToken}
                      /\ issued' = handed
                      /\ resp' = TokenResponse("refresh", token,
                                     SessionResult(200, "TOKEN_REFRESHED", pair))
        /\ UNCHANGED <<now, env, authVars, blacklist, nonTokVars>>

\* POST /auth/logout
Logout(token) ==
    LET a == authenticateToken(users, token, now)
    IN  /\ resp' = TokenResponse("logout", token,
                       IF a.code # "NEXT" THEN SessionResult(a.status, a.code, NoTokens)
                       ELSE SessionResult(200, "LOGOUT_OK", NoTokens))
        /\ UNCHANGED <<now, env, authVars, tokVars, nonTokVars>>

\* a week without requests: the lifetime of a refresh token
Week ==
    /\ now < StartTime + RefreshMinutes
    /\ now' = now + RefreshMinutes
    /\ resp' = Response("week", "", 0, "", NoTokens)
    /\ UNCHANGED <<env, authVars, nonAuthVars>>

InitSession ==
    /\ InitCommon
    /\ env \in Envs

NextSession ==
    \/ \E e \in TokUsers : IssueTokens(e)
    \/ \E token \in Presentable : Refresh(token)
    \/ \E token \in Presentable : Logout(token)
    \/ \E token \in Presentable : AuthenticateToken(token)
    \/ \E e \in ChangeIds, p \in Passwords, n \in NewPasswords : ChangePassword(e, p, n)
    \/ \E id \in UserIdsForDelete : DeleteUser(id)
    \/ Tick
    \/ Week

SpecSession == InitSession /\ [][NextSession]_vars

(***************************************************************************)
(* Properties of the sessions.                                             *)
(***************************************************************************)
\* what POST /auth/refresh is said to require of the presented token
RefreshableAt(token, us, e, t) ==
    /\ token.secret = RefreshSecret(e)
    /\ token.iss = Issuer /\ token.aud = Audience
    /\ t < token.exp
    /\ "type" \in DOMAIN token.payload /\ token.payload.type = "refresh"
    /\ \E i \in 1..Len(us) :
          us[i].employeeId = token.payload.employeeId /\ us[i].isActive

\* C12: a refresh answers with a new token pair exactly when the presented
\* token is signed with the refresh secret, unexpired, of type "refresh" and
\* names the employeeId of an active record, and answers
\* INVALID_REFRESH_TOKEN otherwise; the pair is the one issued for that
\* record at that moment and its access token authenticates a request, also
\* when the same refresh token has been exchanged before.
C12_RefreshIssuesForValidToken ==
    resp.op = "refresh" =>
        IF RefreshableAt(resp.token, users, env, now)
        THEN /\ resp.result.code = "TOKEN_REFRESHED"
             /\ resp.result.tokens.accessToken \in IssuedAccess
             /\ resp.result.tokens.refreshToken \in tokens
             /\ resp.result.tokens.accessToken.iat = now
             /\ resp.result.tokens.accessToken.payload.employeeId
                   = resp.token.payload.employeeId
             /\ authenticateToken(users, resp.result.tokens.accessToken, now).code
                   = "NEXT"
        ELSE /\ resp.result.code = "INVALID_REFRESH_TOKEN"
             /\ resp.result.tokens = NoTokens

\* one refresh token, issued at the start, exchanged for the second time
C12_Witness ==
    /\ resp.op = "refresh" /\ resp.result.code = "TOKEN_REFRESHED"
    /\ resp.token.iat = StartTime /\ now = StartTime + 2 * TickStep
    /\ \E k \in issued :
          /\ k.at = StartTime + TickStep
          /\ k.token # resp.result.tokens.accessToken

\* C13: after a successful logout with a token, the blacklist holds that
\* token with the token's own expiry, and a request that presents a token
\* held by the blacklist before that expiry is not authenticated.
C13_LogoutBlacklists ==
    /\ (resp.op = "logout" /\ resp.result.code = "LOGOUT_OK") =>
          /\ resp.token \in DOMAIN blacklist
          /\ blacklist[resp.token] = getTokenExpiration(resp.token)
    /\ (resp.op \in {"logout", "authenticateToken", "refresh"}
          /\ isTokenBlacklisted(blacklist, resp.token, now)) =>
          resp.result.code \notin {"NEXT", "LOGOUT_OK", "TOKEN_REFRESHED"}

(***************************************************************************)
(* Deactivation: deleteUser of data/users.js next to the logins of the     *)
(* identity, the requests that present its tokens and its refreshes.  The  *)
(* logins before the deactivation are failed ones, which lock the account; *)
(* after it the right password is presented as well.                       *)
(***************************************************************************)
DeactivatedIds == {"AA12349"}

Deactivated(employeeId) ==
    /\ findUserByEmployeeId(users, employeeId) # 0
    /\ ~users[findUserByEmployeeId(users, employeeId)].isActive

NextDeactivation ==
    \/ \E e \in DeactivatedIds : IssueTokens(e)
    \/ \E e \in DeactivatedIds, p \in WrongPasswords : Login(e, p)
    \/ \E e \in DeactivatedIds, p \in Passwords : Deactivated(e) /\ Login(e, p)
    \/ \E id \in UserIdsForDelete : DeleteUser(id)
    \/ \E token \in tokens : AuthenticateToken(token)
    \/ \E token \in tokens : Cardinality(issued) <= MaxIssued /\ Refresh(token)
    \/ Tick

SpecDeactivation == Init /\ [][NextDeactivation]_vars

\* a request that presents a token of a deactivated identity is not let
\* through, and a refresh with one of its tokens fails and hands out nothing
NoSessionOnceDeactivated ==
    /\ (resp'.op = "authenticateToken"
           /\ Deactivated(resp'.token.payload.employeeId)) =>
              resp'.result.code # "NEXT"
    /\ (resp'.op = "refresh" /\ Deactivated(resp'.token.payload.employeeId)) =>
              /\ ~resp'.result.ok /\ resp'.result.code = "INVALID_REFRESH_TOKEN"
              /\ tokens' = tokens

\* C30 as stated: once an identity is deactivated, no request with one of
\* its tokens is let through, every refresh with one of its tokens fails,
\* and every login of the identity is answered ACCOUNT_DEACTIVATED and
\* leaves the users as they were.
C30_DeactivatedLoginIsAccountDeactivated ==
    [][/\ NoSessionOnceDeactivated
       /\ (resp'.op = "login" /\ Deactivated(resp'.who)) =>
              resp'.code = "ACCOUNT_DEACTIVATED" /\ users' = users]_vars

\* C30, amended: the same, where a login of the identity is answered
\* ACCOUNT_LOCKED as long as a lock of the identity has not run out, and
\* ACCOUNT_DEACTIVATED after that or without a lock.
C30_DeactivatedHasNoSession ==
    [][/\ NoSessionOnceDeactivated
       /\ (resp'.op = "login" /\ Deactivated(resp'.who)) =>
              /\ resp'.code = IF IsLockedAt(StoredUser(resp'.who), now)
                              THEN "ACCOUNT_LOCKED" ELSE "ACCOUNT_DEACTIVATED"
              /\ users' = users]_vars

\* a login of an identity that was locked and then deactivated, which holds
\* tokens from before
C30_Witness ==
    /\ resp.op = "login" /\ resp.code = "ACCOUNT_LOCKED"
    /\ Deactivated(resp.who)
    /\ \E token \in tokens : token.payload.employeeId = resp.who

IsRefreshToken(token) ==
    "type" \in DOMAIN token.payload /\ token.payload.type = "refresh"

\* C28: whether JWT_REFRESH_SECRET is set or not, the authentication step
\* of a protected operation never lets a refresh token through, and
\* POST /auth/refresh never accepts an access token.
C28_TokenKindsNotInterchangeable ==
    /\ (resp.op = "authenticateToken" /\ IsRefreshToken(resp.token)) =>
           resp.result.code # "NEXT"
    /\ (resp.op = "logout" /\ IsRefreshToken(resp.token)) => ~resp.result.ok
    /\ (resp.op = "refresh" /\ ~IsRefreshToken(resp.token)) => ~resp.result.ok

(***************************************************************************)
(* Cipher service: utils/encryption.js.  Every function of the module      *)
(* calls crypto.createCipherGCM or crypto.createDecipherGCM; node's crypto *)
(* module exports neither of them (it exports createCipheriv and           *)
(* createDecipheriv), so the call throws a TypeError inside the try block  *)
(* and the function throws its own Error.  CryptoHasGCM records that; the  *)
(* other branch is what the function body would compute.                   *)
(***************************************************************************)
CryptoHasGCM == FALSE

encryptFile(fileBuffer, key, iv) ==
    IF CryptoHasGCM
    THEN [ok |-> TRUE,
          encryptedContent |-> [kind |-> "aes-256-gcm", aad |-> "aviation-document",
                                key |-> key, iv |-> iv, plain |-> fileBuffer],
          key |-> key]
    ELSE [ok |-> FALSE, message |-> "File encryption failed"]

decryptFile(encryptedContent, key) ==
    IF CryptoHasGCM /\ encryptedContent.kind = "aes-256-gcm"
          /\ encryptedContent.aad = "aviation-document" /\ encryptedContent.key = key
    THEN [ok |-> TRUE, plain |-> encryptedContent.plain]
    ELSE [ok |-> FALSE, message |-> "File decryption failed"]

(***************************************************************************)
(* Document gateway: data/documents.js and routes/documents.js.            *)
(***************************************************************************)
MaxLogged == 2       \* accessLog entries appended by the requests explored
MaxUploads == 1      \* documents added by the uploads explored

DefaultPage == 1
DefaultLimit == 20

DocRequesters == {"AA12348", "AA12349"}
DocIds == {"doc-001", "doc-002", "doc-404"}
UpdateIds == {"doc-001", "doc-404"}
DeleteIds == {"doc-002", "doc-404"}
DocCategories == {NoFilter, "weather"}
DocFlights == {"AA1234"}
DocLevels == {2, 5}
DocUuids == <<"doc-uuid-1", "doc-uuid-2">>
FlightDocumentRoles == {"pilot", "co-pilot", "flight-attendant", "dispatcher"}

findDocumentById(docs, id) == FirstIndex([i \in 1..Len(docs) |-> docs[i].id = id])

addDocument(docs, document) == Append(docs, document)

updateDocument(docs, updatedDocument) ==
    LET index == FirstIndex([i \in 1..Len(docs) |-> docs[i].id = updatedDocument.id])
    IN  IF index # 0 THEN [docs EXCEPT ![index] = Spread(docs[index], updatedDocument)]
        ELSE docs

\* a handler whose change never reaches the array
StoreDocument_Forgets(docs, i, document) == docs

\* the handlers change the found object in place and then call updateDocument
StoreDocument(docs, i, document) == updateDocument([docs EXCEPT ![i] = document], document)

Filter(seq, keep) ==
    LET F[n \in 0..Len(seq)] ==
            IF n = 0 THEN <<>>
            ELSE IF keep[n] THEN Append(F[n - 1], seq[n]) ELSE F[n - 1]
    IN  F[Len(seq)]

findDocumentsByFlight(docs, flightNumber) ==
    Filter(docs, [i \in 1..Len(docs) |->
                     docs[i].flightNumber = flightNumber /\ docs[i].status = "active"])

\* Array.prototype.sort with "newest first" on createdAt
RECURSIVE SortNewestFirst(_)
SortNewestFirst(seq) ==
    IF seq = <<>> THEN <<>>
    ELSE LET i == FirstIndex([k \in 1..Len(seq) |->
                        \A j \in 1..Len(seq) : seq[j].createdAt <= seq[k].createdAt])
         IN  <<seq[i]>> \o SortNewestFirst(SubSeq(seq, 1, i - 1)
                                           \o SubSeq(seq, i + 1, Len(seq)))

\* Array.prototype.slice(startIndex, endIndex) of a page
Paginate(seq, page, limit) ==
    LET startIndex == (page - 1) * limit
        endIndex == startIndex + limit
    IN  SubSeq(seq, startIndex + 1, IF endIndex < Len(seq) THEN endIndex ELSE Len(seq))

Ids(seq) == [i \in 1..Len(seq) |-> seq[i].id]

\* a listing that forgets the clearance of the requester
VisibleDocuments_NoClearance(docs, clearanceLevel, t) ==
    LET cleared == Filter(docs, [i \in 1..Len(docs) |-> docs[i].status = "active"])
    IN  Filter(cleared, [i \in 1..Len(cleared) |->
                   cleared[i].expiresAt = Null \/ t < cleared[i].expiresAt])

\* the two filters that GET /documents and GET /documents/flight/:n share
VisibleDocuments(docs, clearanceLevel, t) ==
    LET cleared == Filter(docs, [i \in 1..Len(docs) |->
                        docs[i].accessLevel <= clearanceLevel
                        /\ docs[i].status = "active"])
    IN  Filter(cleared, [i \in 1..Len(cleared) |->
                   cleared[i].expiresAt = Null \/ t < cleared[i].expiresAt])

LogLength(docs) ==
    LET F[n \in 0..Len(docs)] ==
            IF n = 0 THEN 0 ELSE F[n - 1] + Len(docs[n].accessLog)
    IN  F[Len(docs)]

\* accessLog entries appended since the process started
Logged(docs) == LogLength(docs) - LogLength(SeedDocuments)

DocResponse(op, who, clearanceLevel, id, flightNumber, category, status, code, ids) ==
    [op |-> op, who |-> who, clearance |-> clearanceLevel, id |-> id,
     flightNumber |-> flightNumber, category |-> category, status |-> status,
     code |-> code, ids |-> ids, at |-> now]

Requester(employeeId) == users[findUserByEmployeeId(users, employeeId)]

\* GET /documents/:id
ViewDocument(requester, id) ==
    LET user == Requester(requester)
        i == findDocumentById(documents, id)
        document == documents[i]
        Answer(status, code) ==
            DocResponse("viewDocument", requester, user.clearanceLevel, id,
                        NoFilter, NoFilter, status, code, <<>>)
    IN  /\ IsAuthenticated(users, requester)
        /\ IF i = 0
           THEN /\ resp' = Answer(404, "DOCUMENT_NOT_FOUND")
                /\ UNCHANGED documents
           ELSE IF document.accessLevel > user.clearanceLevel
           THEN /\ resp' = Answer(403, "ACCESS_DENIED")
                /\ UNCHANGED documents
           ELSE IF document.expiresAt # Null /\ now > document.expiresAt
           THEN /\ resp' = Answer(410, "DOCUMENT_EXPIRED")
                /\ UNCHANGED documents
           ELSE /\ Logged(documents) < MaxLogged
                /\ documents' = StoreDocument(documents, i,
                      [document EXCEPT !.accessLog =
                           Append(@, LogEntry("viewed", requester, now))])
                /\ resp' = Answer(200, "OK")
        /\ UNCHANGED <<now, env, authVars, tokVars, docUuid, msgVars>>

\* GET /documents/:id/download
DownloadDocument(requester, id) ==
    LET user == Requester(requester)
        i == findDocumentById(documents, id)
        document == documents[i]
        decrypted == decryptFile(document.encryptedContent, document.encryptionKey)
        Answer(status, code) ==
            Spread(DocResponse("downloadDocument", requester, user.clearanceLevel, id,
                               NoFilter, NoFilter, status, code, <<>>),
                   [content |-> IF status = 200 THEN decrypted.plain ELSE NoContent])
    IN  /\ IsAuthenticated(users, requester)
        /\ IF i = 0
           THEN /\ resp' = Answer(404, "DOCUMENT_NOT_FOUND")
                /\ UNCHANGED documents
           ELSE IF document.accessLevel > user.clearanceLevel
           THEN /\ resp' = Answer(403, "DOWNLOAD_ACCESS_DENIED")
                /\ UNCHANGED documents
           ELSE IF document.expiresAt # Null /\ now > document.expiresAt
           THEN /\ resp' = Answer(410, "DOCUMENT_EXPIRED")
                /\ UNCHANGED documents
           ELSE IF ~decrypted.ok
           THEN /\ resp' = Answer(500, "DECRYPTION_FAILED")
                /\ UNCHANGED documents
           ELSE /\ Logged(documents) < MaxLogged
                /\ documents' = StoreDocument(documents, i,
                      [document EXCEPT
                           !.downloadCount = @ + 1,
                           !.accessLog =
                               Append(@, LogEntry("downloaded", requester, now))])
                /\ resp' = Answer(200, "OK")
        /\ UNCHANGED <<now, env, authVars, tokVars, docUuid, msgVars>>

\* String.prototype.toLowerCase on the words of the seed texts and queries
toLowerCase(word) ==
    CASE word = "AA1234" -> "aa1234"      [] word = "Flight" -> "flight"
      [] word = "Plan" -> "plan"          [] word = "Complete" -> "complete"
      [] word = "JFK" -> "jfk"            [] word = "LAX" -> "lax"
      [] word \in {"Weather", "WEATHER"} -> "weather"
      [] word = "Report" -> "report"      [] word = "Chicago" -> "chicago"
      [] word = "Area" -> "area"          [] word = "Current" -> "current"
      [] word = "Aircraft" -> "aircraft"  [] word = "Maintenance" -> "maintenance"
      [] word = "Log" -> "log"            [] word = "N123AA" -> "n123aa"
      [] word = "Crew" -> "crew"          [] word = "Manifest" -> "manifest"
      [] word = "Safety" -> "safety"      [] word = "Briefing" -> "briefing"
      [] word = "Winter" -> "winter"      [] word = "Operations" -> "operations"
      [] word = "Updated" -> "updated"    [] word = "Gate" -> "gate"
      [] OTHER -> word

\* text.toLowerCase().includes(query), for a query that is one word
Includes(text, query) == \E k \in 1..Len(text) : toLowerCase(text[k]) = query

\* Array.prototype.sort with the comparator of GET /documents, for keys that
\* differ from document to document
RECURSIVE SortDocuments(_, _, _)
SortDocuments(seq, sortBy, sortOrder) ==
    IF seq = <<>> THEN <<>>
    ELSE LET i == FirstIndex([k \in 1..Len(seq) |->
                        \A j \in 1..Len(seq) :
                            IF sortOrder = "desc"
                            THEN seq[j][sortBy] <= seq[k][sortBy]
                            ELSE seq[j][sortBy] >= seq[k][sortBy]])
         IN  <<seq[i]>> \o SortDocuments(SubSeq(seq, 1, i - 1)
                                             \o SubSeq(seq, i + 1, Len(seq)),
                                         sortBy, sortOrder)

\* GET /documents with every query parameter
QueryDocuments(requester, category, flightNumber, searchQuery, sortBy, sortOrder, page, limit) ==
    LET user == Requester(requester)
        visible == VisibleDocuments(documents, user.clearanceLevel, now)
        inCategory == IF category # NoFilter
                      THEN Filter(visible, [i \in 1..Len(visible) |->
                                      visible[i].category = category])
                      ELSE visible
        onFlight == IF flightNumber # NoFilter
                    THEN Filter(inCategory, [i \in 1..Len(inCategory) |->
                                    inCategory[i].flightNumber = flightNumber])
                    ELSE inCategory
        query == toLowerCase(searchQuery)
        found == IF searchQuery # NoFilter
                 THEN Filter(onFlight, [i \in 1..Len(onFlight) |->
                                 \/ Includes(onFlight[i].title, query)
                                 \/ Includes(onFlight[i].description, query)
                                 \/ Includes(onFlight[i].fileName, query)])
                 ELSE onFlight
    IN  /\ IsAuthenticated(users, requester)
        /\ resp' = Spread(DocResponse("listDocuments", requester, user.clearanceLevel,
                                      NoFilter, flightNumber, category, 200, "OK",
                                      Ids(Paginate(SortDocuments(found, sortBy,
                                                                 sortOrder),
                                                   page, limit))),
                          [searchQuery |-> searchQuery, sortBy |-> sortBy,
                           sortOrder |-> sortOrder, page |-> page, limit |-> limit])
        /\ UNCHANGED <<now, env, authVars, tokVars, docVars, msgVars>>

\* GET /documents with q, sortBy and sortOrder left out
ListDocuments(requester, category, flightNumber, page, limit) ==
    QueryDocuments(requester, category, flightNumber, NoFilter, "createdAt", "desc",
                   page, limit)

\* GET /documents/flight/:flightNumber
FlightDocuments(requester, flightNumber, page, limit) ==
    LET user == Requester(requester)
        flightDocuments == findDocumentsByFlight(documents, flightNumber)
        visible == VisibleDocuments(flightDocuments, user.clearanceLevel, now)
    IN  /\ IsAuthenticated(users, requester)
        /\ IF user.role \notin FlightDocumentRoles
           THEN resp' = DocResponse("flightDocuments", requester, user.clearanceLevel,
                                    NoFilter, flightNumber, NoFilter, 403,
                                    "INSUFFICIENT_ROLE", <<>>)
           ELSE resp' = DocResponse("flightDocuments", requester, user.clearanceLevel,
                                    NoFilter, flightNumber, NoFilter, 200, "OK",
                                    Ids(Paginate(SortNewestFirst(visible), page, limit)))
        /\ UNCHANGED <<now, env, authVars, tokVars, docVars, msgVars>>

\* a check that lets every requested access level pass
ExceedsClearance_Never(accessLevel, user) == FALSE

\* parseInt(accessLevel) > req.user.clearanceLevel
ExceedsClearance(accessLevel, user) == accessLevel > user.clearanceLevel

\* POST /documents with one file
UploadDocument(requester, category, accessLevel, flightNumber) ==
    LET user == Requester(requester)
        encrypted == encryptFile("file", "file-key", "file-iv")
        newDocument ==
            [id |-> DocUuids[docUuid + 1], title |-> <<"Gate", "Plan">>,
             description |-> <<>>, fileName |-> <<"gate", "plan", "pdf">>,
             category |-> category,
             accessLevel |-> accessLevel, flightNumber |-> flightNumber,
             encryptedContent |-> encrypted.encryptedContent,
             encryptionKey |-> encrypted.key, uploadedBy |-> requester,
             status |-> "active", downloadCount |-> 0, expiresAt |-> Null,
             createdAt |-> now,
             accessLog |-> <<LogEntry("uploaded", requester, now)>>]
        Answer(status, code, ids) ==
            Spread(DocResponse("uploadDocument", requester, user.clearanceLevel,
                               NoFilter, flightNumber, category, status, code, ids),
                   [accessLevel |-> accessLevel])
    IN  /\ IsAuthenticated(users, requester)
        /\ IF ExceedsClearance(accessLevel, user)
           THEN /\ resp' = Answer(403, "INSUFFICIENT_CLEARANCE", <<>>)
                /\ UNCHANGED docVars
           ELSE IF ~encrypted.ok
           THEN /\ resp' = Answer(500, "INTERNAL_ERROR", <<>>)
                /\ UNCHANGED docVars
           ELSE /\ docUuid < MaxUploads
                /\ documents' = addDocument(documents, newDocument)
                /\ docUuid' = docUuid + 1
                /\ resp' = Answer(201, "OK", <<newDocument.id>>)
        /\ UNCHANGED <<now, env, authVars, tokVars, msgVars>>

\* PUT /documents/:id with the fields that validateDocument requires
UpdateDocument(requester, id, category, accessLevel) ==
    LET user == Requester(requester)
        i == findDocumentById(documents, id)
        document == documents[i]
        Answer(status, code) ==
            Spread(DocResponse("updateDocument", requester, user.clearanceLevel, id,
                               NoFilter, category, status, code, <<>>),
                   [accessLevel |-> accessLevel])
    IN  /\ IsAuthenticated(users, requester)
        /\ IF i = 0
           THEN /\ resp' = Answer(404, "DOCUMENT_NOT_FOUND")
                /\ UNCHANGED documents
           ELSE IF document.uploadedBy # requester /\ user.clearanceLevel < 4
           THEN /\ resp' = Answer(403, "UPDATE_ACCESS_DENIED")
                /\ UNCHANGED documents
           ELSE IF ExceedsClearance(accessLevel, user)
           THEN /\ resp' = Answer(403, "INSUFFICIENT_CLEARANCE")
                /\ UNCHANGED documents
           ELSE /\ Logged(documents) < MaxLogged
                /\ documents' = StoreDocument(documents, i,
                      [document EXCEPT
                           !.category = category,
                           !.accessLevel = accessLevel,
                           !.accessLog =
                               Append(@, LogEntry("updated", requester, now))])
                /\ resp' = Answer(200, "OK")
        /\ UNCHANGED <<now, env, authVars, tokVars, docUuid, msgVars>>

\* DELETE /documents/:id
DeleteDocument(requester, id) ==
    LET user == Requester(requester)
        i == findDocumentById(documents, id)
        document == documents[i]
        Answer(status, code) ==
            DocResponse("deleteDocument", requester, user.clearanceLevel, id,
                        NoFilter, NoFilter, status, code, <<>>)
    IN  /\ IsAuthenticated(users, requester)
        /\ IF i = 0
           THEN /\ resp' = Answer(404, "DOCUMENT_NOT_FOUND")
                /\ UNCHANGED documents
           ELSE IF document.uploadedBy # requester /\ user.clearanceLevel < 5
           THEN /\ resp' = Answer(403, "DELETE_ACCESS_DENIED")
                /\ UNCHANGED documents
           ELSE /\ Logged(documents) < MaxLogged
                /\ documents' = StoreDocument(documents, i,
                      [document EXCEPT
                           !.status = "deleted",
                           !.accessLog =
                               Append(@, LogEntry("deleted", requester, now))])
                /\ resp' = Answer(200, "OK")
        /\ UNCHANGED <<now, env, authVars, tokVars, docUuid, msgVars>>

NextDoc ==
    \/ \E r \in DocRequesters, id \in DocIds : ViewDocument(r, id)
    \/ \E r \in DocRequesters, id \in DocIds : DownloadDocument(r, id)
    \/ \E r \in DocRequesters, c \in DocCategories, f \in {NoFilter} \cup DocFlights :
          ListDocuments(r, c, f, DefaultPage, DefaultLimit)
    \/ \E r \in DocRequesters, f \in DocFlights :
          FlightDocuments(r, f, DefaultPage, DefaultLimit)
    \/ \E r \in DocRequesters, l \in DocLevels, f \in DocFlights :
          UploadDocument(r, "operational", l, f)
    \/ \E r \in DocRequesters, id \in UpdateIds, l \in DocLevels :
          UpdateDocument(r, id, "operational", l)
    \/ \E r \in DocRequesters, id \in DeleteIds : DeleteDocument(r, id)
    \/ Tick

SpecDoc == Init /\ [][NextDoc]_vars

(***************************************************************************)
(* Properties of the document gateway.                                     *)
(***************************************************************************)
Member(seq, x) == \E i \in 1..Len(seq) : seq[i] = x

\* the documents that a listing was asked for
Requested(document) ==
    /\ resp.flightNumber # NoFilter => document.flightNumber = resp.flightNumber
    /\ resp.category # NoFilter => document.category = resp.category

\* C3: a requester with clearance c below the accessLevel L of a document is
\* denied viewing and downloading it and does not find it in the general or the
\* per-flight listing; with c >= L viewing and downloading succeed and the
\* listings that were asked for it contain it.
C3_ClearanceGatesDocuments ==
    /\ resp.op \in {"viewDocument", "downloadDocument"} =>
          \A i \in 1..Len(documents) :
              documents[i].id = resp.id =>
                  IF resp.clearance < documents[i].accessLevel
                  THEN resp.status = 403
                  ELSE resp.status = 200
    /\ resp.op \in {"listDocuments", "flightDocuments"} =>
          \A i \in 1..Len(documents) :
              Requested(documents[i]) =>
                  (Member(resp.ids, documents[i].id)
                      <=> resp.clearance >= documents[i].accessLevel)


(***************************************************************************)
(* Message gateway: data/messages.js and routes/messages.js.               *)
(***************************************************************************)
MaxSent == 1         \* messages added by the POST /messages requests explored

DeleteMinutes == 5         \* maxDeleteTime
DecryptionFailed == "[Encrypted message - decryption failed]"
EncryptedMessage == "[Encrypted Message]"

MsgUsers == {"AA12345", "AA12346"}
MsgSenders == {"AA12346"}
FlightRequesters == MsgUsers \cup {"AA12347"}
MsgRecipients == {"AA12345", "XX00000"}
MsgIds == {"msg-001", "msg-002", "msg-404"}
MsgUuids == <<"msg-uuid-1", "msg-uuid-2">>
MsgTypes == {"all", "received"}
MsgFlights == {"AA1234"}
MsgContents == {"Gate change to B12"}
FlightMessageRoles == {"pilot", "co-pilot", "dispatcher"}

\* what the body of encryptMessage returns when no call in it throws
encryptMessageBody(message, key, iv) ==
    [ok |-> TRUE,
     encryptedContent |-> [kind |-> "aes-256-gcm", aad |-> "aviation-message",
                           key |-> key, iv |-> iv, plain |-> message],
     key |-> key]

encryptMessage(message, key, iv) ==
    IF CryptoHasGCM
    THEN encryptMessageBody(message, key, iv)
    ELSE [ok |-> FALSE, message |-> "Message encryption failed"]

\* only ever applied to the content of a message with isEncrypted
decryptMessage(encryptedMessage, key) ==
    IF CryptoHasGCM /\ encryptedMessage.kind = "aes-256-gcm"
          /\ encryptedMessage.aad = "aviation-message" /\ encryptedMessage.key = key
    THEN [ok |-> TRUE, plain |-> encryptedMessage.plain]
    ELSE [ok |-> FALSE, message |-> "Message decryption failed"]

findMessageById(msgs, id) == FirstIndex([i \in 1..Len(msgs) |-> msgs[i].id = id])

findMessagesByFlight(msgs, flightNumber) ==
    Filter(msgs, [i \in 1..Len(msgs) |-> msgs[i].flightNumber = flightNumber])

addMessage(msgs, message) == Append(msgs, message)

updateMessage(msgs, updatedMessage) ==
    LET index == FirstIndex([i \in 1..Len(msgs) |-> msgs[i].id = updatedMessage.id])
    IN  IF index # 0 THEN [msgs EXCEPT ![index] = Spread(msgs[index], updatedMessage)]
        ELSE msgs

\* the handlers change the found object in place and then call updateMessage
StoreMessage(msgs, i, message) == updateMessage([msgs EXCEPT ![i] = message], message)

\* Array.prototype.splice(index, 1)
deleteMessage(msgs, id) ==
    LET index == findMessageById(msgs, id)
    IN  IF index # 0
        THEN SubSeq(msgs, 1, index - 1) \o SubSeq(msgs, index + 1, Len(msgs))
        ELSE msgs

\* what a response shows of a message, with the content it carries
Shown(message, content) ==
    [id |-> message.id, senderId |-> message.senderId,
     recipientId |-> message.recipientId, content |-> content,
     isEncrypted |-> message.isEncrypted, readAt |-> message.readAt]

\* a content that is the marker of the per-flight listing for every message
ContentFor_FlightMarker(message, employeeId) == EncryptedMessage

\* the content that GET /messages and GET /messages/:id put in the response
ContentFor(message, employeeId) ==
    IF message.recipientId = employeeId /\ message.isEncrypted
          /\ message.encryptionKey # NoKey
    THEN LET decrypted == decryptMessage(message.content, message.encryptionKey)
         IN  IF decrypted.ok THEN decrypted.plain ELSE DecryptionFailed
    ELSE message.content

MsgResponse(op, who, id, flightNumber, status, code, delivered) ==
    [op |-> op, who |-> who, id |-> id, flightNumber |-> flightNumber,
     status |-> status, code |-> code, delivered |-> delivered, at |-> now]

\* the newMessage of POST /messages, from the request and from what
\* encryptMessage returned
NewMessage(id, sender, recipientId, content, isEncrypted, encrypted, flightNumber, t) ==
    [id |-> id, senderId |-> sender, recipientId |-> recipientId,
     content |-> IF isEncrypted THEN encrypted.encryptedContent ELSE content,
     originalContent |-> content, isEncrypted |-> isEncrypted,
     encryptionKey |-> IF isEncrypted THEN encrypted.key ELSE NoKey,
     priority |-> "normal", category |-> "general",
     flightNumber |-> flightNumber, readAt |-> Null, createdAt |-> t]

\* POST /messages
SendMessage(sender, recipientId, content, isEncrypted, flightNumber) ==
    LET r == findUserByEmployeeId(users, recipientId)
        encrypted == encryptMessage(content, "message-key", "message-iv")
        newMessage == NewMessage(MsgUuids[msgUuid + 1], sender, recipientId, content,
                                 isEncrypted, encrypted, flightNumber, now)
        Answer(status, code, delivered) ==
            MsgResponse("sendMessage", sender, NoFilter, flightNumber, status, code,
                        delivered)
    IN  /\ IsAuthenticated(users, sender)
        /\ IF r = 0
           THEN /\ resp' = Answer(404, "RECIPIENT_NOT_FOUND", <<>>)
                /\ UNCHANGED msgVars
           ELSE IF ~users[r].isActive
           THEN /\ resp' = Answer(400, "RECIPIENT_INACTIVE", <<>>)
                /\ UNCHANGED msgVars
           ELSE IF isEncrypted /\ ~encrypted.ok
           THEN /\ resp' = Answer(500, "INTERNAL_ERROR", <<>>)
                /\ UNCHANGED msgVars
           ELSE /\ msgUuid < MaxSent
                /\ messages' = addMessage(messages, newMessage)
                /\ msgUuid' = msgUuid + 1
                /\ resp' = Answer(201, "OK", <<Shown(newMessage, newMessage.content)>>)
        /\ UNCHANGED <<now, env, authVars, tokVars, docVars>>

\* GET /messages with every query parameter
QueryMessages(requester, type, priority, flightNumber, category, unreadOnly, page, limit) ==
    LET ofType == IF type = "sent"
                  THEN Filter(messages, [i \in 1..Len(messages) |->
                                  messages[i].senderId = requester])
                  ELSE IF type = "received"
                  THEN Filter(messages, [i \in 1..Len(messages) |->
                                  messages[i].recipientId = requester])
                  ELSE Filter(messages, [i \in 1..Len(messages) |->
                                  messages[i].senderId = requester
                                  \/ messages[i].recipientId = requester])
        ofPriority == IF priority # NoFilter
                      THEN Filter(ofType, [i \in 1..Len(ofType) |->
                                      ofType[i].priority = priority])
                      ELSE ofType
        onFlight == IF flightNumber # NoFilter
                    THEN Filter(ofPriority, [i \in 1..Len(ofPriority) |->
                                    ofPriority[i].flightNumber = flightNumber])
                    ELSE ofPriority
        inCategory == IF category # NoFilter
                      THEN Filter(onFlight, [i \in 1..Len(onFlight) |->
                                      onFlight[i].category = category])
                      ELSE onFlight
        unread == IF unreadOnly
                  THEN Filter(inCategory, [i \in 1..Len(inCategory) |->
                                  inCategory[i].recipientId = requester
                                  /\ inCategory[i].readAt = Null])
                  ELSE inCategory
        paginated == Paginate(SortNewestFirst(unread), page, limit)
    IN  /\ IsAuthenticated(users, requester)
        /\ resp' = Spread(MsgResponse("listMessages", requester, NoFilter, flightNumber,
                                      200, "OK",
                                      [i \in 1..Len(paginated) |->
                                          Shown(paginated[i],
                                                ContentFor(paginated[i], requester))]),
                          [type |-> type, priority |-> priority, category |-> category,
                           unreadOnly |-> unreadOnly, page |-> page, limit |-> limit])
        /\ UNCHANGED <<now, env, authVars, tokVars, docVars, msgVars>>

\* GET /messages with priority, flightNumber and category left out
ListMessages(requester, type, unreadOnly, page, limit) ==
    QueryMessages(requester, type, NoFilter, NoFilter, NoFilter, unreadOnly, page, limit)

\* a view that stamps readAt whoever reads
ReadBy_Anyone(message, employeeId, t) == [message EXCEPT !.readAt = t]

\* "Mark as read if user is the recipient" of GET /messages/:id
ReadBy(message, employeeId, t) ==
    IF message.recipientId = employeeId /\ message.readAt = Null
    THEN [message EXCEPT !.readAt = t]
    ELSE message

\* GET /messages/:id
ViewMessage(requester, id) ==
    LET i == findMessageById(messages, id)
        message == messages[i]
        read == ReadBy(message, requester, now)
        Answer(status, code, delivered) ==
            MsgResponse("viewMessage", requester, id, NoFilter, status, code, delivered)
    IN  /\ IsAuthenticated(users, requester)
        /\ IF i = 0
           THEN /\ resp' = Answer(404, "MESSAGE_NOT_FOUND", <<>>)
                /\ UNCHANGED messages
           ELSE IF message.senderId # requester /\ message.recipientId # requester
           THEN /\ resp' = Answer(403, "MESSAGE_ACCESS_DENIED", <<>>)
                /\ UNCHANGED messages
           ELSE /\ messages' = IF read # message THEN StoreMessage(messages, i, read)
                               ELSE messages
                /\ resp' = Answer(200, "OK", <<Shown(read, ContentFor(read, requester))>>)
        /\ UNCHANGED <<now, env, authVars, tokVars, docVars, msgUuid>>

\* PUT /messages/:id/read
MarkRead(requester, id) ==
    LET i == findMessageById(messages, id)
        message == messages[i]
        Answer(status, code) ==
            MsgResponse("markRead", requester, id, NoFilter, status, code, <<>>)
    IN  /\ IsAuthenticated(users, requester)
        /\ IF i = 0
           THEN /\ resp' = Answer(404, "MESSAGE_NOT_FOUND")
                /\ UNCHANGED messages
           ELSE IF message.recipientId # requester
           THEN /\ resp' = Answer(403, "MESSAGE_ACCESS_DENIED")
                /\ UNCHANGED messages
           ELSE IF message.readAt # Null
           THEN /\ resp' = Answer(400, "MESSAGE_ALREADY_READ")
                /\ UNCHANGED messages
           ELSE /\ messages' = StoreMessage(messages, i, [message EXCEPT !.readAt = now])
                /\ resp' = Answer(200, "OK")
        /\ UNCHANGED <<now, env, authVars, tokVars, docVars, msgUuid>>

\* DELETE /messages/:id
DeleteMessage(requester, id) ==
    LET i == findMessageById(messages, id)
        message == messages[i]
        messageAge == now - message.createdAt
        Answer(status, code) ==
            MsgResponse("deleteMessage", requester, id, NoFilter, status, code, <<>>)
    IN  /\ IsAuthenticated(users, requester)
        /\ IF i = 0
           THEN /\ resp' = Answer(404, "MESSAGE_NOT_FOUND")
                /\ UNCHANGED messages
           ELSE IF message.senderId # requester
           THEN /\ resp' = Answer(403, "DELETE_ACCESS_DENIED")
                /\ UNCHANGED messages
           ELSE IF message.readAt # Null /\ messageAge > DeleteMinutes
           THEN /\ resp' = Answer(400, "DELETE_TIME_EXPIRED")
                /\ UNCHANGED messages
           ELSE /\ messages' = deleteMessage(messages, id)
                /\ resp' = Answer(200, "OK")
        /\ UNCHANGED <<now, env, authVars, tokVars, docVars, msgUuid>>

\* GET /messages/flight/:flightNumber
FlightMessages(requester, flightNumber, page, limit) ==
    LET user == Requester(requester)
        paginated == Paginate(SortNewestFirst(findMessagesByFlight(messages,
                                                                  flightNumber)),
                              page, limit)
    IN  /\ IsAuthenticated(users, requester)
        /\ IF user.role \notin FlightMessageRoles
           THEN resp' = MsgResponse("flightMessages", requester, NoFilter, flightNumber,
                                    403, "INSUFFICIENT_ROLE", <<>>)
           ELSE resp' = MsgResponse("flightMessages", requester, NoFilter, flightNumber,
                           200, "OK",
                           [i \in 1..Len(paginated) |->
                               Shown(paginated[i],
                                     IF paginated[i].isEncrypted THEN EncryptedMessage
                                     ELSE paginated[i].content)])
        /\ UNCHANGED <<now, env, authVars, tokVars, docVars, msgVars>>

SentIds == {MsgUuids[i] : i \in 1..Len(MsgUuids)}

NextMsg ==
    \/ \E s \in MsgSenders, r \in MsgRecipients, c \in MsgContents, e \in BOOLEAN,
          f \in MsgFlights : SendMessage(s, r, c, e, f)
    \/ \E r \in MsgUsers, t \in MsgTypes, u \in BOOLEAN :
          ListMessages(r, t, u, DefaultPage, DefaultLimit)
    \/ \E r \in MsgUsers, id \in MsgIds \cup SentIds : ViewMessage(r, id)
    \/ \E r \in MsgUsers, id \in MsgIds \cup SentIds : MarkRead(r, id)
    \/ \E r \in MsgUsers, id \in MsgIds \cup SentIds : DeleteMessage(r, id)
    \/ \E r \in FlightRequesters, f \in MsgFlights :
          FlightMessages(r, f, DefaultPage, DefaultLimit)
    \/ Tick

SpecMsg == Init /\ [][NextMsg]_vars

(***************************************************************************)
(* The listings of both gateways under every query parameter, next to one *)
(* update of a document and the passing of time, which change what a       *)
(* listing may show.                                                       *)
(***************************************************************************)
QuerySearches == {NoFilter, "AA1234"}
QueryFlights == {NoFilter, "AA1234"}
QuerySorts == {<<"createdAt", "desc">>, <<"downloadCount", "asc">>}
QueryPages == {<<DefaultPage, DefaultLimit>>, <<2, 1>>}
QueryTypes == {"all", "sent", "received"}
\* priority, flightNumber and category of GET /messages
QueryFilters == {<<NoFilter, NoFilter, NoFilter>>, <<"urgent", "AA1234", NoFilter>>,
                 <<NoFilter, NoFilter, "flight-plan">>}

NextList ==
    \/ \E r \in DocRequesters, c \in DocCategories, f \in QueryFlights,
          q \in QuerySearches, s \in QuerySorts, p \in QueryPages :
          QueryDocuments(r, c, f, q, s[1], s[2], p[1], p[2])
    \/ \E r \in DocRequesters, f \in DocFlights, p \in QueryPages :
          FlightDocuments(r, f, p[1], p[2])
    \/ \E r \in MsgUsers, t \in QueryTypes, f \in QueryFilters, u \in BOOLEAN,
          p \in QueryPages :
          QueryMessages(r, t, f[1], f[2], f[3], u, p[1], p[2])
    \/ \E r \in DocRequesters, id \in UpdateIds, l \in DocLevels :
          Logged(documents) = 0 /\ UpdateDocument(r, id, "operational", l)
    \/ Tick

SpecList == Init /\ [][NextList]_vars

(***************************************************************************)
(* Properties of the message gateway.                                      *)
(***************************************************************************)
\* C4: the content of a message is delivered only to its sender or its
\* recipient, on GET /messages, GET /messages/:id and the per-flight listing,
\* and a third party that asks for a message by id is answered 403.
C4_OnlySenderOrRecipientReads ==
    /\ resp.op \in {"viewMessage", "listMessages", "flightMessages"} =>
          \A k \in 1..Len(resp.delivered) :
              resp.delivered[k].isEncrypted
                  \/ resp.who \in {resp.delivered[k].senderId,
                                   resp.delivered[k].recipientId}
    /\ resp.op = "viewMessage" =>
          \A i \in 1..Len(messages) :
              (messages[i].id = resp.id
                  /\ resp.who \notin {messages[i].senderId, messages[i].recipientId})
                  => resp.code = "MESSAGE_ACCESS_DENIED"

MessageById(msgs, id) == msgs[findMessageById(msgs, id)]

HasMessage(msgs, id) == findMessageById(msgs, id) # 0

\* C14: a delete asked by anyone but the sender is answered
\* DELETE_ACCESS_DENIED and leaves the messages as they were; the sender's
\* delete of an unread message succeeds whatever its age; the sender's delete
\* of a read message succeeds exactly when it is asked at most 5 minutes
\* after readAt, and is answered DELETE_TIME_EXPIRED otherwise.
C14_DeleteWindowFromRead ==
    [][(resp'.op = "deleteMessage" /\ HasMessage(messages, resp'.id)) =>
          LET message == MessageById(messages, resp'.id)
          IN  IF message.senderId # resp'.who
              THEN resp'.code = "DELETE_ACCESS_DENIED" /\ messages' = messages
              ELSE IF message.readAt = Null
                      \/ now - message.readAt <= DeleteMinutes
              THEN resp'.code = "OK" /\ ~HasMessage(messages', resp'.id)
              ELSE resp'.code = "DELETE_TIME_EXPIRED" /\ messages' = messages]_vars

\* C15: every message and every document that was ever stored is still in
\* its store; a deleted one carries status 'deleted', and a document with
\* status 'deleted' never gets another status.
C15_SoftDeleteAbsorbing ==
    [][/\ \A i \in 1..Len(messages) : HasMessage(messages', messages[i].id)
       /\ \A i \in 1..Len(documents) :
             LET j == findDocumentById(documents', documents[i].id)
             IN  /\ j # 0
                 /\ documents[i].status = "deleted" =>
                        documents'[j].status = "deleted"
       /\ resp'.op = "deleteDocument" /\ resp'.code = "OK" =>
             documents'[findDocumentById(documents', resp'.id)].status = "deleted"
       /\ resp'.op = "deleteMessage" /\ resp'.code = "OK" =>
             /\ HasMessage(messages', resp'.id)
             /\ "status" \in DOMAIN MessageById(messages', resp'.id)
             /\ MessageById(messages', resp'.id).status = "deleted"]_vars

\* C19: readAt of a message changes only from null to the present minute,
\* and only on a view or a mark-as-read asked by its recipient; the first
\* view or mark-as-read by the recipient does set it; a view by the sender,
\* and any later view or mark-as-read, leaves it as it was.
C19_ReadAtSetOnceByRecipient ==
    [][\A i \in 1..Len(messages) :
          HasMessage(messages', messages[i].id) =>
              LET old == messages[i]
                  new == MessageById(messages', old.id)
                  reads == /\ resp'.op \in {"viewMessage", "markRead"}
                           /\ resp'.id = old.id
                           /\ resp'.who = old.recipientId
              IN  IF old.readAt = Null /\ reads
                  THEN new.readAt = now /\ resp'.code = "OK"
                  ELSE new.readAt = old.readAt]_vars

\* the recipient views again a message that was sent at the start and that
\* they read a quarter of an hour later
C19_Witness ==
    /\ resp.op = "viewMessage" /\ resp.code = "OK"
    /\ HasMessage(messages, resp.id)
    /\ MessageById(messages, resp.id).recipientId = resp.who
    /\ MessageById(messages, resp.id).createdAt = StartTime
    /\ MessageById(messages, resp.id).readAt = StartTime + TickStep
    /\ now = StartTime + 2 * TickStep

(***************************************************************************)
(* The cipher functions of utils/encryption.js on their own: a plaintext   *)
(* is encrypted for a purpose and the result is handed to a decrypt        *)
(* function, as it is or changed on the way; and the stored ciphertexts of *)
(* the seed documents are decrypted.                                       *)
(***************************************************************************)
Purposes == {"message", "document"}
Plaintexts == {"", "Gate change to B12", "file"}
CipherKeys == {"key-1", "key-2"}        \* outcomes of crypto.randomBytes(KEY_LENGTH)
CipherIvs == {"iv-1", "iv-2"}           \* outcomes of generateIV()
Tampers == {"none", "purpose", "key", "ciphertext"}

Encrypt(purpose, plaintext, key, iv) ==
    IF purpose = "message" THEN encryptMessage(plaintext, key, iv)
    ELSE encryptFile(plaintext, key, iv)

Decrypt(purpose, encryptedContent, key) ==
    IF purpose = "message" THEN decryptMessage(encryptedContent, key)
    ELSE decryptFile(encryptedContent, key)

OtherPurpose(purpose) == CHOOSE other \in Purposes : other # purpose

OtherKey(key) == CHOOSE other \in CipherKeys : other # key

\* a ciphertext, nonce or tag that was modified no longer authenticates
Garbled(encryptedContent) == [encryptedContent EXCEPT !.kind = "garbled"]

CipherResponse(op, purpose, plaintext, tamper, result) ==
    [op |-> op, purpose |-> purpose, plaintext |-> plaintext, tamper |-> tamper,
     result |-> result, at |-> now]

\* encrypt, then decrypt what came out of it
RoundTrip(purpose, plaintext, key, iv, tamper) ==
    LET encrypted == Encrypt(purpose, plaintext, key, iv)
        decrypted ==
            CASE tamper = "purpose" ->
                    Decrypt(OtherPurpose(purpose), encrypted.encryptedContent,
                            encrypted.key)
              [] tamper = "key" ->
                    Decrypt(purpose, encrypted.encryptedContent,
                            OtherKey(encrypted.key))
              [] tamper = "ciphertext" ->
                    Decrypt(purpose, Garbled(encrypted.encryptedContent),
                            encrypted.key)
              [] OTHER ->
                    Decrypt(purpose, encrypted.encryptedContent, encrypted.key)
    IN  /\ resp' = CipherResponse("roundTrip", purpose, plaintext, tamper,
                                  IF encrypted.ok THEN decrypted ELSE encrypted)
        /\ UNCHANGED <<now, env, authVars, tokVars, docVars, msgVars>>

\* decrypt the stored content of a document with a stored key
DecryptStored(i, k) ==
    /\ resp' = CipherResponse("decryptStored", "document", documents[i].id,
                              IF i = k THEN "none" ELSE "key",
                              decryptFile(documents[i].encryptedContent,
                                          documents[k].encryptionKey))
    /\ UNCHANGED <<now, env, authVars, tokVars, docVars, msgVars>>

\* what POST /messages puts in content when encryptMessage returns, as it
\* is and after a byte of it was changed
MessageCiphertexts ==
    LET stored == [kind |-> "aes-256-gcm", aad |-> "aviation-message",
                   key |-> "key-1", iv |-> "iv-1", plain |-> "Flight plan revision"]
    IN  << stored, Garbled(stored) >>

RecordReaders == {"AA12345", "AA12346", "AA12349"}

\* a message record as POST /messages builds it: a seed message, or the
\* same message with isEncrypted, a ciphertext and a key (or no key)
MessageRecord(base, c, key) ==
    IF c = 0 THEN SeedMessages[base]
    ELSE [SeedMessages[base] EXCEPT !.content = MessageCiphertexts[c],
                                    !.isEncrypted = TRUE, !.encryptionKey = key]

\* the step of GET /messages and GET /messages/:id that turns one message
\* of the requester into the message of the response
DeliverContent(base, c, key, employeeId) ==
    LET message == MessageRecord(base, c, key)
    IN  /\ IsAuthenticated(users, employeeId)
        /\ employeeId \in {message.senderId, message.recipientId}
        /\ resp' = Spread(MsgResponse("deliverContent", employeeId, message.id,
                                      NoFilter, 200, "OK",
                                      <<Shown(message, ContentFor(message, employeeId))>>),
                          [message |-> message])
        /\ UNCHANGED <<now, env, authVars, tokVars, docVars, msgVars>>

\* the record POST /messages hands to addMessage for a message that is to
\* be encrypted, built from what the body of encryptMessage returns
RecordEncrypted(content, key, iv) ==
    /\ resp' = [op |-> "newMessage", plaintext |-> content, at |-> now,
                message |-> NewMessage(MsgUuids[1], "AA12346", "AA12345", content, TRUE,
                                       encryptMessageBody(content, key, iv),
                                       NoFlight, now)]
    /\ UNCHANGED <<now, env, authVars, tokVars, docVars, msgVars>>

NextCipher ==
    \/ \E purpose \in Purposes, plaintext \in Plaintexts, key \in CipherKeys,
          iv \in CipherIvs, tamper \in Tampers :
          RoundTrip(purpose, plaintext, key, iv, tamper)
    \/ \E i, k \in 1..Len(documents) : DecryptStored(i, k)
    \/ \E base \in 1..2, c \in 0..Len(MessageCiphertexts),
          key \in CipherKeys \cup {NoKey}, r \in RecordReaders :
          DeliverContent(base, c, key, r)
    \/ \E r \in DocRequesters, id \in DocIds : DownloadDocument(r, id)
    \/ \E content \in MsgContents, key \in CipherKeys, iv \in CipherIvs :
          RecordEncrypted(content, key, iv)
    \/ Tick

SpecCipher == Init /\ [][NextCipher]_vars

(***************************************************************************)
(* Properties of the cipher functions.                                     *)
(***************************************************************************)
DecryptionErrors == {"Message decryption failed", "File decryption failed"}

\* C20: a plaintext that was encrypted for a purpose and is decrypted with
\* the returned key by the function of that purpose comes back as it was;
\* decrypting with the function of the other purpose, with another key, or
\* after the ciphertext, nonce or tag was modified fails as a decryption
\* failure.
C20_RoundTripReturnsPlaintext ==
    resp.op = "roundTrip" =>
        IF resp.tamper = "none"
        THEN resp.result.ok /\ resp.result.plain = resp.plaintext
        ELSE ~resp.result.ok /\ resp.result.message \in DecryptionErrors

DocumentById(docs, id) == docs[findDocumentById(docs, id)]

\* the fields of a message record that hold text
TextFields == {"id", "senderId", "recipientId", "originalContent", "encryptionKey",
               "priority", "category", "flightNumber"}

ReachesDecryption(document, clearanceLevel, t) ==
    /\ document.accessLevel <= clearanceLevel
    /\ ~(document.expiresAt # Null /\ t > document.expiresAt)

SetsAccessLevel ==
    \/ resp'.op = "uploadDocument"
    \/ resp'.op = "updateDocument" /\ findDocumentById(documents, resp'.id) # 0

\* C17 as stated: an upload or an update that asks for an accessLevel above
\* the clearance of the requester is answered INSUFFICIENT_CLEARANCE and
\* leaves the documents as they were.
C17_AboveClearanceIsInsufficientClearance ==
    [][(SetsAccessLevel /\ resp'.accessLevel > resp'.clearance) =>
          /\ resp'.code = "INSUFFICIENT_CLEARANCE"
          /\ UNCHANGED docVars]_vars

\* C17, amended: an upload or an update that asks for an accessLevel above
\* the clearance of the requester is never accepted and leaves the documents
\* as they were; it is answered INSUFFICIENT_CLEARANCE, except that an update
\* by someone who is neither the uploader nor of clearance 4 or more is
\* answered UPDATE_ACCESS_DENIED.
C17_AboveClearanceIsRejected ==
    [][(SetsAccessLevel /\ resp'.accessLevel > resp'.clearance) =>
          /\ resp'.status = 403
          /\ resp'.code =
                IF /\ resp'.op = "updateDocument"
                   /\ DocumentById(documents, resp'.id).uploadedBy # resp'.who
                   /\ resp'.clearance < 4
                THEN "UPDATE_ACCESS_DENIED"
                ELSE "INSUFFICIENT_CLEARANCE"
          /\ UNCHANGED docVars]_vars

\* the uploader of a document, after a change of theirs was stored, asks for
\* an accessLevel above their clearance
C17_Witness ==
    /\ resp.op = "updateDocument" /\ resp.code = "INSUFFICIENT_CLEARANCE"
    /\ resp.accessLevel > resp.clearance
    /\ DocumentById(documents, resp.id).uploadedBy = resp.who
    /\ Logged(documents) > 0

\* the action that a request writes to the access log when it succeeds
LoggedAction(op) ==
    CASE op = "uploadDocument" -> "uploaded"
      [] op = "viewDocument" -> "viewed"
      [] op = "downloadDocument" -> "downloaded"
      [] op = "updateDocument" -> "updated"
      [] op = "deleteDocument" -> "deleted"
      [] OTHER -> "none"

\* the access logs of all stored documents, by document id
AccessLogs(docs) ==
    [id \in {docs[i].id : i \in 1..Len(docs)} |-> DocumentById(docs, id).accessLog]

\* C18: the access log of a document only grows at its end; a successful
\* view, download, update or delete appends to the log of its document exactly
\* one entry with the requester and the action, a successful upload stores the
\* new document with exactly one 'uploaded' entry of the requester, and no
\* other log changes; a rejected request leaves every log as it was.
C18_AccessLogAppendOnly ==
    [][LET old == AccessLogs(documents)
           new == AccessLogs(documents')
           op == resp'.op
           succeeded == LoggedAction(op) # "none" /\ resp'.code = "OK"
           target == IF op = "uploadDocument" THEN resp'.ids[1] ELSE resp'.id
           entry == LogEntry(LoggedAction(op), resp'.who, now)
       IN  IF documents' = documents THEN ~succeeded
           ELSE /\ \A id \in DOMAIN old :
                      /\ id \in DOMAIN new
                      /\ Len(new[id]) >= Len(old[id])
                      /\ SubSeq(new[id], 1, Len(old[id])) = old[id]
                /\ IF ~succeeded THEN new = old
                   ELSE /\ target \in DOMAIN new
                        /\ new[target] =
                              Append(IF op = "uploadDocument" THEN <<>>
                                     ELSE old[target], entry)
                        /\ \A id \in DOMAIN new : id # target =>
                              id \in DOMAIN old /\ new[id] = old[id]]_vars

\* a document that was viewed and then deleted: two entries after the seed's
C18_Witness ==
    /\ resp.op = "deleteDocument" /\ resp.code = "OK"
    /\ LET log == DocumentById(documents, resp.id).accessLog
       IN  /\ Len(log) = 3
           /\ log[2].action = "viewed"
           /\ log[3] = LogEntry("deleted", resp.who, now)

\* C27: a view, a download, an update or a delete of a document whose
\* status is 'deleted' is rejected, whoever asks, and leaves the documents
\* (downloadCount and accessLog among them) as they were.
C27_DeletedIsInaccessible ==
    [][(/\ resp'.op \in {"viewDocument", "downloadDocument", "updateDocument",
                         "deleteDocument"}
        /\ findDocumentById(documents, resp'.id) # 0
        /\ DocumentById(documents, resp'.id).status = "deleted") =>
           resp'.status >= 400 /\ documents' = documents]_vars

(***************************************************************************)
(* A document whose accessLevel is raised and lowered by the requesters    *)
(* that PUT /documents/:id lets through, its uploader among them, next to  *)
(* the reads of the documents.                                             *)
(***************************************************************************)
RaisedIds == {"doc-004"}
RaisedLevels == {2, 4}

NextClearance ==
    \/ \E r \in DocRequesters, id \in RaisedIds, l \in RaisedLevels :
          UpdateDocument(r, id, "operational", l)
    \/ \E r \in DocRequesters, id \in DocIds \cup RaisedIds : ViewDocument(r, id)
    \/ \E r \in DocRequesters, id \in DocIds \cup RaisedIds : DownloadDocument(r, id)
    \/ \E r \in DocRequesters, f \in {NoFilter} \cup DocFlights :
          ListDocuments(r, NoFilter, f, DefaultPage, DefaultLimit)
    \/ \E r \in DocRequesters, f \in DocFlights :
          FlightDocuments(r, f, DefaultPage, DefaultLimit)
    \/ Tick

SpecClearance == Init /\ [][NextClearance]_vars

\* C26: a view, a download or an update of a document whose accessLevel is
\* above the clearance of the requester is answered 403 and leaves the
\* documents as they were (its metadata and its accessLevel among them), and
\* no listing returns a document above the clearance of the requester.
C26_NoActionAboveClearance ==
    [][/\ (/\ resp'.op \in {"viewDocument", "downloadDocument", "updateDocument"}
           /\ findDocumentById(documents, resp'.id) # 0
           /\ DocumentById(documents, resp'.id).accessLevel > resp'.clearance) =>
              resp'.status = 403 /\ documents' = documents
       /\ resp'.op \in {"listDocuments", "flightDocuments"} =>
              \A k \in 1..Len(resp'.ids) :
                  DocumentById(documents, resp'.ids[k]).accessLevel <= resp'.clearance]_vars

(***************************************************************************)
(* Properties of the listings.                                             *)
(***************************************************************************)
\* C16: whatever the query parameters, every document that GET /documents or
\* GET /documents/flight/:flightNumber returns has an accessLevel at most the
\* clearance of the requester, and every message that GET /messages returns
\* has the requester as its sender or its recipient.
C16_ListingsStayWithinRights ==
    /\ resp.op \in {"listDocuments", "flightDocuments"} =>
          \A k \in 1..Len(resp.ids) :
              DocumentById(documents, resp.ids[k]).accessLevel
                  <= Requester(resp.who).clearanceLevel
    /\ resp.op = "listMessages" =>
          \A k \in 1..Len(resp.delivered) :
              resp.who \in {resp.delivered[k].senderId, resp.delivered[k].recipientId}

\* a search on a flight, sorted and paged, that returns the second of two
\* documents within the clearance of the requester while a document of that
\* flight above the clearance is stored
C16_Witness ==
    /\ resp.op = "listDocuments" /\ resp.clearance = 2
    /\ resp.flightNumber = "AA1234" /\ resp.searchQuery = "AA1234"
    /\ resp.sortBy = "downloadCount" /\ resp.sortOrder = "asc"
    /\ resp.page = 2 /\ resp.limit = 1
    /\ resp.ids = <<"doc-004">>
    /\ \E i \in 1..Len(documents) :
          /\ documents[i].accessLevel > resp.clearance
          /\ documents[i].status = "active"
          /\ documents[i].flightNumber = resp.flightNumber
====
